---- MODULE Spec2Model ----
(***************************************************************************)
(* Multi-currency valuation and mean-variance optimisation of the          *)
(* finance-portfolio dashboard (src/app/pages/portfolio.py,                *)
(* src/app/pages/investments.py, src/app/main.py,                          *)
(* src/app/utils/data_handler.py,                                          *)
(* src/app/utils/handlers/portfolio_analysis_handler.py).                  *)
(*                                                                         *)
(* Numbers.  Python floats are modelled as exact rationals [n, d] with     *)
(* d > 0 in lowest terms (the amounts and rates the forms produce are      *)
(* integers here); a division whose divisor is zero is the Python          *)
(* exception, never a number.                                              *)
(* None is the empty tuple <<>> and a present optional value v is <<v>>.   *)
(***************************************************************************)
EXTENDS Integers, Sequences, FiniteSets, TLC

VARIABLES
    portfolio,    \* table portfolio: asset_type -> row (data_handler.py:103-111, 141-164)
    investment,   \* table investment: id -> row (data_handler.py:82-100)
    next_id,      \* next AUTOINCREMENT id of table investment
    market,       \* what the price-history provider answers: symbol -> history
    view,         \* what the last handler computed or displayed
    budget,       \* table budget: <<month, category>> -> amount (data_handler.py:70-79)
    session_state \* st.session_state of the investments page (investments.py:301-304)

vars == <<portfolio, investment, next_id, market, view, budget, session_state>>

---------------------------------------------------------------------------
(* Bounds of the model *)

MaxId == 2            \* investment rows ever inserted
AmountUnit == 1000    \* the non-zero amount a form field takes
RateStep == 100       \* distance between the two exchange rates in use
NumAssetTypes == 2    \* how many of the six asset types of the allocation form are modelled

(* Program constants *)

DefaultRate == 1300   \* fallback USD/KRW rate

\* Validator.MIN_EXCHANGE_RATE, Validator.MAX_EXCHANGE_RATE
MIN_EXCHANGE_RATE == 500
MAX_EXCHANGE_RATE == 2000

---------------------------------------------------------------------------
(* Python values *)

None == <<>>
Some(v) == <<v>>
IsNone(x) == x = <<>>

Abs(i) == IF i < 0 THEN -i ELSE i

RECURSIVE GCD(_, _)
GCD(a, b) == IF b = 0 THEN a ELSE GCD(b, a % b)

\* the rational n / d, d > 0, in lowest terms
Rat(n, d) ==
    LET g == GCD(IF n < 0 THEN -n ELSE n, d)
    IN [n |-> n \div g, d |-> d \div g]
Int2Rat(i) == Rat(i, 1)
Raise(e) == [err |-> e]
IsErr(x) == "err" \in DOMAIN x
IsNum(x) == "n" \in DOMAIN x

\* a / b on floats holding the integers a and b
PyDiv(a, b) ==
    IF b = 0 THEN Raise("ZeroDivisionError")
    ELSE IF b > 0 THEN Rat(a, b) ELSE Rat(-a, -b)

\* x * k and x - k on a float x that may be an exception already
Times(x, k) == IF IsErr(x) THEN x ELSE Rat(x.n * k, x.d)
Minus(x, k) == IF IsErr(x) THEN x ELSE Rat(x.n - k * x.d, x.d)

RAdd(a, b) == Rat(a.n * b.d + b.n * a.d, a.d * b.d)

\* a * b, the common factors cancelled before the products are taken
RMul(a, b) ==
    LET g1 == GCD(Abs(a.n), b.d)
        g2 == GCD(Abs(b.n), a.d)
    IN IF a.n = 0 \/ b.n = 0 THEN Rat(0, 1)
       ELSE Rat((a.n \div g1) * (b.n \div g2), (a.d \div g2) * (b.d \div g1))
IsZero(x) == IsNum(x) /\ x.n = 0

REq(a, b) == IsNum(a) /\ IsNum(b) /\ a.n * b.d = b.n * a.d
RLe(a, b) == a.n * b.d <= b.n * a.d

\* floor of n / d for d > 0
FloorDiv(n, d) == IF n >= 0 THEN n \div d ELSE -((-n + d - 1) \div d)

\* round(x, 1): the nearest tenth, ties to the even tenth
Round1(x) ==
    IF IsErr(x) THEN x
    ELSE LET t == FloorDiv(x.n * 10, x.d)
             rem2 == 2 * (x.n * 10 - t * x.d)
         IN IF rem2 < x.d THEN Rat(t, 10)
            ELSE IF rem2 > x.d THEN Rat(t + 1, 10)
            ELSE IF t % 2 = 0 THEN Rat(t, 10) ELSE Rat(t + 1, 10)

RECURSIVE RSumOver(_, _)
RSumOver(f, S) ==
    IF S = {} THEN Int2Rat(0)
    ELSE LET k == CHOOSE x \in S : TRUE IN RAdd(f[k], RSumOver(f, S \ {k}))

RECURSIVE SumOver(_, _)
SumOver(f, S) ==
    IF S = {} THEN 0
    ELSE LET k == CHOOSE x \in S : TRUE IN f[k] + SumOver(f, S \ {k})

---------------------------------------------------------------------------
(* Exchange-rate provider and conversions (portfolio.py) *)

\* outcome of the provider: None when the fetch raises, <<r>> when it answers r
FetchOutcomes == {None, Some(DefaultRate + RateStep)}

get_current_exchange_rate(fetched) ==
    IF IsNone(fetched) THEN DefaultRate ELSE fetched[1]

convert_to_krw_any_currency(amount, currency, exchange_rate, fetched) ==
    LET rate == IF IsNone(exchange_rate) THEN get_current_exchange_rate(fetched)
                ELSE exchange_rate[1]
    IN amount * rate

convert_to_krw(amount, currency, exchange_rate, fetched) ==
    IF currency = "USD"
    THEN LET rate == IF IsNone(exchange_rate) THEN get_current_exchange_rate(fetched)
                     ELSE exchange_rate[1]
         IN amount * rate
    ELSE amount

\* amount * None is a TypeError
calculate_krw_amount(amount, currency, exchange_rate) ==
    IF currency = "USD"
    THEN IF IsNone(exchange_rate) THEN Raise("TypeError")
         ELSE Int2Rat(amount * exchange_rate[1])
    ELSE Int2Rat(amount)

---------------------------------------------------------------------------
(* Asset-allocation form and calculate_portfolio_metrics (portfolio.py) *)

\* asset_types, in the order of the source; the model keeps the first NumAssetTypes
asset_types == <<"stock", "bond", "cash", "real_estate", "commodity", "alternative">>
AssetTypes == {asset_types[i] : i \in 1..NumAssetTypes}

Currencies == {"KRW", "USD"}
\* number_input(min_value=0.0): the values a form amount takes here
Amounts == {0, AmountUnit}
\* number_input(min_value=800.0, max_value=2000.0, value=current_exchange_rate): the
\* purchase rate typed into the allocation form, different from every current rate
FormRate == DefaultRate - RateStep

\* one entry of asset_data as the form builds it
AssetEntries ==
    {[amount |-> a, currency |-> "KRW", purchase_exchange_rate |-> None] : a \in Amounts}
    \cup {[amount |-> AmountUnit, currency |-> "USD",
           purchase_exchange_rate |-> Some(FormRate)]}
AssetDataSet == [AssetTypes -> AssetEntries]

\* item.get('current_amount', item.get('amount', 0))
CurrentAmountOf(item) ==
    IF "current_amount" \in DOMAIN item THEN item.current_amount ELSE item.amount

\* first loop: purchase amounts, a USD item at its own purchase rate
PurchaseKrwOf(item, fetched) ==
    IF item.currency = "USD"
    THEN convert_to_krw(item.amount, item.currency, item.purchase_exchange_rate, fetched)
    ELSE item.amount

\* second and third loop: current amounts, a USD item at the rate of the caller
CurrentKrwOf(item, exchange_rate, fetched) ==
    IF item.currency = "USD"
    THEN convert_to_krw(CurrentAmountOf(item), item.currency, exchange_rate, fetched)
    ELSE CurrentAmountOf(item)

WeightsOverPurchaseTotal(data, exchange_rate, fetched, current_total_krw) ==
    LET total_krw == SumOver([k \in DOMAIN data |-> PurchaseKrwOf(data[k], fetched)],
                             DOMAIN data)
    IN IF total_krw = 0 THEN [k \in DOMAIN data |-> Int2Rat(0)]
       ELSE [k \in DOMAIN data |->
                Times(PyDiv(CurrentKrwOf(data[k], exchange_rate, fetched), total_krw), 100)]

Weights(data, exchange_rate, fetched, current_total_krw) ==
    IF current_total_krw = 0 THEN [k \in DOMAIN data |-> Int2Rat(0)]
    ELSE [k \in DOMAIN data |->
             Times(PyDiv(CurrentKrwOf(data[k], exchange_rate, fetched), current_total_krw), 100)]

TotalPurchaseAtCallerRate(data, exchange_rate, fetched) ==
    SumOver([k \in DOMAIN data |->
                convert_to_krw(data[k].amount, data[k].currency, exchange_rate, fetched)],
            DOMAIN data)

TotalPurchase(data, exchange_rate, fetched) ==
    SumOver([k \in DOMAIN data |-> PurchaseKrwOf(data[k], fetched)], DOMAIN data)

calculate_portfolio_metrics_of_holdings(data, exchange_rate, fetched) ==
    IF DOMAIN data = {}
    THEN Raise("ValueError")
    ELSE LET current_total_krw ==
                 SumOver([k \in DOMAIN data |-> CurrentKrwOf(data[k], exchange_rate, fetched)],
                         DOMAIN data)
         IN [total |-> TotalPurchase(data, exchange_rate, fetched),
             total_krw |-> current_total_krw,
             weights |-> Weights(data, exchange_rate, fetched, current_total_krw)]

calculate_portfolio_metrics(data, exchange_rate, fetched) ==
    IF DOMAIN data = {}
    THEN [total |-> 0, weights |-> <<>>, total_krw |-> 0]
    ELSE LET total_krw == TotalPurchase(data, exchange_rate, fetched)
             current_total_krw ==
                 SumOver([k \in DOMAIN data |-> CurrentKrwOf(data[k], exchange_rate, fetched)],
                         DOMAIN data)
         IN [total |-> total_krw,
             total_krw |-> current_total_krw,
             weights |-> Weights(data, exchange_rate, fetched, current_total_krw)]

---------------------------------------------------------------------------
(* Table portfolio: save_portfolio, load_portfolio (data_handler.py) *)

\* INSERT OR REPLACE of every asset type of the form
save_portfolio(table, data) ==
    [k \in DOMAIN table \cup DOMAIN data |->
        IF k \in DOMAIN data
        THEN [currency |-> data[k].currency, amount |-> data[k].amount,
              purchase_exchange_rate |-> data[k].purchase_exchange_rate]
        ELSE table[k]]

load_portfolio(table) == table

---------------------------------------------------------------------------
(* Dashboard weights (main.py) *)

\* FinanceDataHandler defines no get_current_exchange_rate: the call of main.py:110
\* raises AttributeError for the first USD asset
\* the weights without round(..., 1)
DashboardWeightsExact(asset_values, total_assets) ==
    [k \in DOMAIN asset_values |-> Times(PyDiv(asset_values[k], total_assets), 100)]

DashboardWeights(asset_values, total_assets) ==
    [k \in DOMAIN asset_values |-> Round1(Times(PyDiv(asset_values[k], total_assets), 100))]

main_dashboard(table) ==
    LET portfolio_data == load_portfolio(table)
    IN IF DOMAIN portfolio_data = {} THEN [shown |-> FALSE]
       ELSE IF \E k \in DOMAIN portfolio_data : portfolio_data[k].currency = "USD"
       THEN Raise("AttributeError")
       ELSE LET asset_values == [k \in DOMAIN portfolio_data |-> portfolio_data[k].amount]
                total_assets == SumOver(asset_values, DOMAIN asset_values)
                weights == DashboardWeights(asset_values, total_assets)
            IN IF \E k \in DOMAIN weights : IsErr(weights[k])
               THEN Raise("ZeroDivisionError")
               ELSE [shown |-> TRUE, total_assets |-> total_assets,
                     asset_values |-> asset_values, weights |-> weights]

---------------------------------------------------------------------------
(* Table investment: save_investment, delete_investment, load_investment *)
(* (data_handler.py)                                                    *)

\* the row save_investment writes for the submitted dict
InvestmentRow(data) ==
    [type |-> data.type, symbol |-> data.symbol, name |-> data.name,
     purchase_quantity |-> data.purchase_quantity,
     purchase_price |-> data.purchase_price,
     current_price |-> data.current_price,
     currency |-> data.currency,
     amount |-> data.amount,
     current_amount |-> data.current_amount,
     purchase_exchange_rate |->
         IF "purchase_exchange_rate" \in DOMAIN data
         THEN Some(data.purchase_exchange_rate) ELSE None,
     current_exchange_rate |->
         IF "current_exchange_rate" \in DOMAIN data
         THEN Some(data.current_exchange_rate) ELSE None,
     purchase_date |-> data.purchase_date,
     memo |-> data.memo]

\* SELECT id FROM investment WHERE symbol = ? AND type = ?, fetchone()
ExistingIds(table, data) ==
    {i \in DOMAIN table : table[i].symbol = data.symbol /\ table[i].type = data.type}

Min(S) == CHOOSE m \in S : \A x \in S : m <= x

\* save_investment without the SELECT: every call is an INSERT
save_investment_always_insert(table, id, data) ==
    [i \in DOMAIN table \cup {id} |-> IF i = id THEN InvestmentRow(data) ELSE table[i]]

\* UPDATE of the row found, which keeps its id, else INSERT under the next id
save_investment(table, id, data) ==
    IF ExistingIds(table, data) # {}
    THEN LET existing_id == Min(ExistingIds(table, data))
         IN [i \in DOMAIN table |-> IF i = existing_id THEN InvestmentRow(data) ELSE table[i]]
    ELSE [i \in DOMAIN table \cup {id} |-> IF i = id THEN InvestmentRow(data) ELSE table[i]]

delete_investment(table, id) == [i \in DOMAIN table \ {id} |-> table[i]]

\* update_investment without its WHERE clause: every row is rewritten
update_investment_all_rows(table, id, data) ==
    [i \in DOMAIN table |-> InvestmentRow(data)]

\* UPDATE investment SET ... WHERE id = ?: no row, no change, and still True
update_investment(table, id, data) ==
    [i \in DOMAIN table |-> IF i = id THEN InvestmentRow(data) ELSE table[i]]

load_investment(table) == table

---------------------------------------------------------------------------
(* Investment entry form (investments.py, tab 1) *)

\* (investment type, symbol) pairs typed into the form
FormKeys == {<<"stock", "AAA">>, <<"etc", "BBB">>}
\* number_input(min_value=0.0, value=1300.0): exchange rates typed into the form
PurchaseRates == {0, DefaultRate}
CurrentRates == {DefaultRate, DefaultRate + RateStep}

PurchaseDate == "2024-01-02"

\* investment_data of the submit branch: the two rates are added for USD only
FormKrw(key, amount, current_amount) ==
    [type |-> key[1], symbol |-> key[2], name |-> key[2],
     purchase_quantity |-> 0, purchase_price |-> 0, current_price |-> 0,
     currency |-> "KRW", amount |-> amount, current_amount |-> current_amount,
     purchase_date |-> PurchaseDate, memo |-> ""]

FormUsd(key, amount, current_amount, purchase_rate, current_rate) ==
    [type |-> key[1], symbol |-> key[2], name |-> key[2],
     purchase_quantity |-> 0, purchase_price |-> 0, current_price |-> 0,
     currency |-> "USD", amount |-> amount, current_amount |-> current_amount,
     purchase_exchange_rate |-> purchase_rate, current_exchange_rate |-> current_rate,
     purchase_date |-> PurchaseDate, memo |-> ""]

InvestmentForms ==
    {FormKrw(key, a, c) : key \in FormKeys, a \in Amounts, c \in Amounts}
    \cup {FormUsd(key, a, c, pr, cr) :
            key \in FormKeys, a \in Amounts, c \in Amounts,
            pr \in PurchaseRates, cr \in CurrentRates}

---------------------------------------------------------------------------
(* Performance tab (investments.py, tab 2) *)

\* lines 212-227: one holding's contribution to the two totals
KrwInvestmentOf(item) ==
    IF item.currency = "USD"
    THEN item.amount * item.purchase_exchange_rate[1]
    ELSE item.amount

KrwEvaluationOf(item) ==
    IF item.currency = "USD"
    THEN item.current_amount * item.current_exchange_rate[1]
    ELSE item.current_amount

ReturnPctUnguarded(gain, base) == Times(PyDiv(gain, base), 100)

\* (gain / base * 100) if base > 0 else 0
ReturnPct(gain, base) ==
    IF base > 0 THEN Times(PyDiv(gain, base), 100) ELSE Int2Rat(0)

PerformanceTotals(investment_data) ==
    LET total_krw_investment ==
            SumOver([i \in DOMAIN investment_data |-> KrwInvestmentOf(investment_data[i])],
                    DOMAIN investment_data)
        total_krw_evaluation ==
            SumOver([i \in DOMAIN investment_data |-> KrwEvaluationOf(investment_data[i])],
                    DOMAIN investment_data)
    IN [total_krw_investment |-> total_krw_investment,
        total_krw_evaluation |-> total_krw_evaluation,
        total_returns |->
            ReturnPct(total_krw_evaluation - total_krw_investment, total_krw_investment)]

ExchangeEffectUnguarded(purchase_rate, current_rate) ==
    Times(PyDiv(current_rate - purchase_rate, purchase_rate), 100)

\* ((current_rate - purchase_rate) / purchase_rate * 100) if purchase_rate > 0 else 0
ExchangeEffect(purchase_rate, current_rate) ==
    IF purchase_rate > 0
    THEN Times(PyDiv(current_rate - purchase_rate, purchase_rate), 100)
    ELSE Int2Rat(0)

HoldingReturnNative(inv) ==
    [returns |-> ReturnPct(inv.current_amount - inv.amount, inv.amount),
     exchange_effect |-> None, shown_effect |-> None]

\* lines 476-529: the metrics of one holding whose price history was fetched.
\* The KRW branch assigns no exchange_effect and the fourth column is left empty.
HoldingPerformance(inv) ==
    IF inv.currency = "USD"
    THEN LET purchase_rate == inv.purchase_exchange_rate[1]
             current_rate == inv.current_exchange_rate[1]
             krw_investment == inv.amount * purchase_rate
             krw_current == inv.current_amount * current_rate
             exchange_effect == ExchangeEffect(purchase_rate, current_rate)
         IN [returns |-> ReturnPct(krw_current - krw_investment, krw_investment),
             exchange_effect |-> Some(exchange_effect),
             shown_effect |-> Some(exchange_effect)]
    ELSE [returns |-> ReturnPct(inv.current_amount - inv.amount, inv.amount),
          exchange_effect |-> None, shown_effect |-> None]

\* stock_investments: the rows are rendered only when one holding is a stock with a symbol
HasStockInvestments(investment_data) ==
    \E i \in DOMAIN investment_data :
        investment_data[i].type = "stock" /\ investment_data[i].symbol # ""

\* rows of the holdings whose history get_stock_data returned with more than one price
PerformanceRows(investment_data, with_history) ==
    IF HasStockInvestments(investment_data)
    THEN [i \in {j \in DOMAIN investment_data : investment_data[j].symbol \in with_history} |->
             HoldingPerformance(investment_data[i])]
    ELSE <<>>

---------------------------------------------------------------------------
(* Analysis tab (portfolio.py, tab 2) *)

\* lines 184-189: a USD purchase amount at the rate of the caller
TotalInvestment(data, exchange_rate) ==
    SumOver([i \in DOMAIN data |->
                IF data[i].currency = "USD" THEN data[i].amount * exchange_rate
                ELSE data[i].amount], DOMAIN data)

\* lines 192-196
TotalValue(data, exchange_rate) ==
    SumOver([i \in DOMAIN data |->
                IF data[i].currency = "USD" THEN data[i].current_amount * exchange_rate
                ELSE data[i].current_amount], DOMAIN data)

\* (total_profit / total_investment_krw * 100) if total_investment_krw > 0 else 0
ProfitRate(total_profit, total_investment_krw) ==
    IF total_investment_krw > 0
    THEN Times(PyDiv(total_profit, total_investment_krw), 100)
    ELSE Int2Rat(0)

calculate_investment_metrics(data, exchange_rate) ==
    IF DOMAIN data = {}
    THEN [total_investment |-> 0, total_value |-> 0, total_profit |-> 0,
          total_profit_rate |-> Int2Rat(0)]
    ELSE LET total_investment_krw == TotalInvestment(data, exchange_rate)
             total_value_krw == TotalValue(data, exchange_rate)
             total_profit == total_value_krw - total_investment_krw
         IN [total_investment |-> total_investment_krw,
             total_value |-> total_value_krw,
             total_profit |-> total_profit,
             total_profit_rate |-> ProfitRate(total_profit, total_investment_krw)]

\* line 461: ((current_amount / amount) - 1) * 100 if amount > 0 else 0
DetailProfitRate(value, exchange_rate) ==
    IF value.amount > 0
    THEN Times(Minus(PyDiv(value.current_amount, value.amount), 1), 100)
    ELSE Int2Rat(0)

\* lines 451-472: one row of the detail table
DetailRows(investment_data, exchange_rate) ==
    [i \in DOMAIN investment_data |->
        [krw_amount |-> convert_to_krw(investment_data[i].amount,
                            investment_data[i].currency, Some(exchange_rate), None),
         krw_current |-> convert_to_krw(investment_data[i].current_amount,
                            investment_data[i].currency, Some(exchange_rate), None),
         profit_rate |-> DetailProfitRate(investment_data[i], exchange_rate)]]

---------------------------------------------------------------------------
(* Preset-based rebalancing (portfolio.py, tab 2, lines 496-626) *)

PresetThreshold == 5    \* if abs(diff) >= 5

\* target allocations in percent, keyed by the asset types of asset_types
conservative ==
    [stock |-> 30, bond |-> 40, cash |-> 15, real_estate |-> 10,
     commodity |-> 3, alternative |-> 2]

aggressive ==
    [stock |-> 60, bond |-> 20, cash |-> 5, real_estate |-> 10,
     commodity |-> 3, alternative |-> 2]

PortfolioTypes == {"conservative", "aggressive"}

target_allocation(portfolio_type) ==
    IF portfolio_type = "conservative" THEN conservative ELSE aggressive

\* lines 570-589: the current KRW value per investment type, a USD holding at its
\* stored current rate, turned into percent when the total is positive
CurrentAllocation(investment_data) ==
    LET types == {investment_data[i].type : i \in DOMAIN investment_data}
        krw == [t \in types |->
                   SumOver([i \in DOMAIN investment_data |->
                               KrwEvaluationOf(investment_data[i])],
                           {i \in DOMAIN investment_data : investment_data[i].type = t})]
        total_portfolio_value == SumOver(krw, types)
    IN [total_portfolio_value |-> total_portfolio_value,
        current_allocation |->
            [t \in types |-> IF total_portfolio_value > 0
                             THEN Times(PyDiv(krw[t], total_portfolio_value), 100)
                             ELSE Int2Rat(krw[t])]]

\* float(f"{diff:+.1f}%".strip("%").strip("+")): the diff as it is displayed
ShownDiff(diff) == Round1(diff)

\* lines 594-626: one row of rebalance_needed and its suggestion; the threshold,
\* the direction and the amount are taken from the diff read back from its
\* one-decimal display
PresetItem(current_weight, target_weight, total_portfolio_value) ==
    LET exact == RAdd(Int2Rat(target_weight), Rat(-current_weight.n, current_weight.d))
        diff == ShownDiff(exact)
    IN IF RLe(Int2Rat(PresetThreshold), Rat(Abs(diff.n), diff.d))
       THEN [current_weight |-> current_weight, target_weight |-> target_weight,
             diff |-> exact, shown_diff |-> diff, flagged |-> TRUE,
             action |-> IF diff.n > 0 THEN "buy" ELSE "sell",
             amount |-> RMul(Rat(Abs(diff.n), diff.d), Rat(total_portfolio_value, 100))]
       ELSE [current_weight |-> current_weight, target_weight |-> target_weight,
             diff |-> exact, shown_diff |-> diff, flagged |-> FALSE]

PresetRebalance(investment_data, current_exchange_rate, portfolio_type) ==
    LET alloc == CurrentAllocation(investment_data)
        target == target_allocation(portfolio_type)
    IN [total_portfolio_value |-> alloc.total_portfolio_value,
        items |->
            [asset_type \in {asset_types[i] : i \in DOMAIN asset_types} |->
                PresetItem(IF asset_type \in DOMAIN alloc.current_allocation
                           THEN alloc.current_allocation[asset_type] ELSE Int2Rat(0),
                           IF asset_type \in DOMAIN target THEN target[asset_type] ELSE 0,
                           alloc.total_portfolio_value)]]

---------------------------------------------------------------------------
(* Optimizer tab, current weights (portfolio.py, tab 3, lines 644-658) *)

NaN == [nan |-> TRUE]
Inf == [inf |-> TRUE]

\* Series / float: a zero divisor gives nan (0 / 0) or inf, and raises nothing
PdDiv(a, b) ==
    IF b = 0 THEN (IF a = 0 THEN NaN ELSE Inf)
    ELSE IF b > 0 THEN Rat(a, b) ELSE Rat(-a, -b)

\* DataFrame.from_dict keeps a column that holds None in every row as None, so
\* float(row.get('current_exchange_rate', 1.0)) is float(None); with a rate in
\* some row the missing rates are nan, which calculate_krw_amount reads for USD only
CurrentWeights(investment_data) ==
    IF \A i \in DOMAIN investment_data : IsNone(investment_data[i].current_exchange_rate)
    THEN Raise("TypeError")
    ELSE LET krw_values ==
                 [i \in DOMAIN investment_data |->
                     calculate_krw_amount(investment_data[i].current_amount,
                                          investment_data[i].currency,
                                          investment_data[i].current_exchange_rate).n]
             total_krw_value == SumOver(krw_values, DOMAIN krw_values)
         IN [krw_values |-> krw_values,
             total_krw_value |-> total_krw_value,
             current_weights |->
                 [i \in DOMAIN krw_values |-> PdDiv(krw_values[i], total_krw_value)]]

---------------------------------------------------------------------------
(* PortfolioAnalysisHandler.analyze_portfolio (portfolio_analysis_handler.py) *)

\* Decimal / Decimal: 0 / 0 raises InvalidOperation, x / 0 raises DivisionByZero
DecimalDiv(a, b) ==
    IF b = 0 THEN (IF a = 0 THEN Raise("InvalidOperation") ELSE Raise("DivisionByZero"))
    ELSE IF b > 0 THEN Rat(a, b) ELSE Rat(-a, -b)

\* the purchase amount of a holding, a USD one at its current rate
AnalysisKrwAmount(inv) ==
    IF inv.currency = "KRW" THEN inv.amount
    ELSE inv.amount * inv.current_exchange_rate[1]

analyze_portfolio(investments) ==
    LET ids == DOMAIN investments
        total_value_krw == SumOver([i \in ids |-> AnalysisKrwAmount(investments[i])], ids)
        types == {investments[i].type : i \in ids}
        currencies == {investments[i].currency : i \in ids}
        asset_allocation ==
            [t \in types |->
                Times(DecimalDiv(
                    SumOver([i \in ids |-> AnalysisKrwAmount(investments[i])],
                            {i \in ids : investments[i].type = t}),
                    total_value_krw), 100)]
        currency_exposure ==
            [c \in currencies |->
                Times(DecimalDiv(
                    SumOver([i \in ids |-> AnalysisKrwAmount(investments[i])],
                            {i \in ids : investments[i].currency = c}),
                    total_value_krw), 100)]
    IN IF \E t \in types : IsErr(asset_allocation[t])
       THEN CHOOSE e \in {asset_allocation[t] : t \in types} : IsErr(e)
       ELSE [total_value_krw |-> total_value_krw,
             asset_allocation |-> asset_allocation,
             currency_exposure |-> currency_exposure]

---------------------------------------------------------------------------
(* Handlers of the allocation form and the dashboard *)

NoView == [op |-> "none"]

\* no symbol has been asked of the price-history provider
NoMarket == <<>>

\* table budget right after CREATE TABLE: no row
NoBudget == <<>>

\* a fresh browser session: st.session_state has no show_edit_form attribute
NoSession ==
    [show_edit_form |-> FALSE, edit_investment_id |-> <<>>, edit_investment |-> <<>>]

\* render_portfolio_page, tab 1, no submit: the metrics shown under the form
PortfolioFormRendered(asset_data, fetched) ==
    LET current_exchange_rate == get_current_exchange_rate(fetched)
    IN /\ view' = [op |-> "portfolio_form", data |-> asset_data,
                   rate |-> current_exchange_rate, saved |-> FALSE,
                   metrics |-> calculate_portfolio_metrics(
                                   asset_data, Some(current_exchange_rate), fetched)]
       /\ UNCHANGED <<portfolio, investment, next_id, market, budget, session_state>>

RenderPortfolioForm ==
    \E asset_data \in AssetDataSet, fetched \in FetchOutcomes :
        PortfolioFormRendered(asset_data, fetched)

\* render_portfolio_page, tab 1, submit: the same metrics, then save_portfolio
PortfolioFormSubmitted(asset_data, fetched) ==
    LET current_exchange_rate == get_current_exchange_rate(fetched)
    IN /\ view' = [op |-> "portfolio_form", data |-> asset_data,
                   rate |-> current_exchange_rate, saved |-> TRUE,
                   metrics |-> calculate_portfolio_metrics(
                                   asset_data, Some(current_exchange_rate), fetched)]
       /\ portfolio' = save_portfolio(portfolio, asset_data)
       /\ UNCHANGED <<investment, next_id, market, budget, session_state>>

SubmitPortfolioForm ==
    \E asset_data \in AssetDataSet, fetched \in FetchOutcomes :
        PortfolioFormSubmitted(asset_data, fetched)

\* main_dashboard: the asset-distribution container
MainDashboard ==
    /\ view' = [op |-> "dashboard", result |-> main_dashboard(portfolio)]
    /\ UNCHANGED <<portfolio, investment, next_id, market, budget, session_state>>

Init ==
    /\ portfolio = <<>>
    /\ investment = <<>>
    /\ next_id = 1
    /\ market = NoMarket
    /\ view = NoView
    /\ budget = NoBudget
    /\ session_state = NoSession

Next ==
    \/ RenderPortfolioForm
    \/ SubmitPortfolioForm
    \/ MainDashboard

Spec == Init /\ [][Next]_vars

\* the allocation form and the dashboard with amounts in the ratio 1 : 2, whose
\* weights are no whole numbers of tenths
WeightEntries ==
    AssetEntries
    \cup {[amount |-> 2 * AmountUnit, currency |-> "KRW", purchase_exchange_rate |-> None]}

RenderWeightsForm ==
    \E asset_data \in [AssetTypes -> WeightEntries], fetched \in FetchOutcomes :
        PortfolioFormRendered(asset_data, fetched)

SubmitWeightsForm ==
    \E asset_data \in [AssetTypes -> WeightEntries], fetched \in FetchOutcomes :
        PortfolioFormSubmitted(asset_data, fetched)

NextWeights ==
    \/ RenderWeightsForm
    \/ SubmitWeightsForm
    \/ MainDashboard

SpecWeights == Init /\ [][NextWeights]_vars

---------------------------------------------------------------------------
(* The two conversions as functions of their arguments *)

\* rate arguments a conversion is called with: missing, zero, negative, positive
RateArgs == {None, Some(0), Some(-DefaultRate), Some(DefaultRate), Some(DefaultRate + RateStep)}
ConvAmounts == Amounts \cup {2 * AmountUnit, 3 * AmountUnit}

ConvertToKrw ==
    \E amount \in ConvAmounts, currency \in Currencies, rate \in RateArgs,
       fetched \in FetchOutcomes :
        /\ view' = [op |-> "convert_to_krw", amount |-> amount, currency |-> currency,
                    rate |-> rate, fetched |-> fetched,
                    result |-> Int2Rat(convert_to_krw(amount, currency, rate, fetched))]
        /\ UNCHANGED <<portfolio, investment, next_id, market, budget, session_state>>

CalculateKrwAmount ==
    \E amount \in ConvAmounts, currency \in Currencies, rate \in RateArgs :
        /\ view' = [op |-> "calculate_krw_amount", amount |-> amount, currency |-> currency,
                    rate |-> rate, fetched |-> None,
                    result |-> calculate_krw_amount(amount, currency, rate)]
        /\ UNCHANGED <<portfolio, investment, next_id, market, budget, session_state>>

\* investments.py, get_exchange_rate: the fetched rate, None when the fetch raises
get_exchange_rate(fetched) ==
    IF IsNone(fetched) THEN None ELSE Some(fetched[1])

\* one call of get_current_exchange_rate (portfolio.py)
GetCurrentExchangeRate ==
    \E fetched \in FetchOutcomes :
        /\ view' = [op |-> "get_current_exchange_rate", fetched |-> fetched,
                    result |-> Some(get_current_exchange_rate(fetched))]
        /\ UNCHANGED <<portfolio, investment, next_id, market, budget, session_state>>

\* one call of get_exchange_rate (investments.py)
GetExchangeRate ==
    \E fetched \in FetchOutcomes :
        /\ view' = [op |-> "get_exchange_rate", fetched |-> fetched,
                    result |-> get_exchange_rate(fetched)]
        /\ UNCHANGED <<portfolio, investment, next_id, market, budget, session_state>>

\* holdings calculate_portfolio_metrics is applied to: entries of the allocation
\* form for any of the asset types, none included
MetricsInputs == UNION {[S -> AssetEntries] : S \in SUBSET AssetTypes}

CalculatePortfolioMetrics ==
    \E data \in MetricsInputs, exchange_rate \in {None, Some(DefaultRate)},
       fetched \in FetchOutcomes :
        /\ view' = [op |-> "calculate_portfolio_metrics", data |-> data,
                    rate |-> exchange_rate, fetched |-> fetched,
                    metrics |-> calculate_portfolio_metrics(data, exchange_rate, fetched)]
        /\ UNCHANGED <<portfolio, investment, next_id, market, budget, session_state>>

\* calculate_investment_metrics applied to no holding or to one stored holding
CalculateInvestmentMetrics ==
    \E data \in {<<>>} \cup {save_investment(<<>>, 1, form) : form \in InvestmentForms},
       exchange_rate \in CurrentRates :
        /\ view' = [op |-> "calculate_investment_metrics", data |-> data,
                    rate |-> exchange_rate,
                    metrics |-> calculate_investment_metrics(data, exchange_rate)]
        /\ UNCHANGED <<portfolio, investment, next_id, market, budget, session_state>>

NextConvert ==
    \/ CalculatePortfolioMetrics
    \/ CalculateInvestmentMetrics
    \/ ConvertToKrw
    \/ CalculateKrwAmount
    \/ GetCurrentExchangeRate
    \/ GetExchangeRate

SpecConvert == Init /\ [][NextConvert]_vars

---------------------------------------------------------------------------
(* Handlers over table investment *)

\* investments.py, tab 1: submit of the entry form, save_investment, st.rerun()
SaveSubmitted(data) ==
    /\ ExistingIds(investment, data) # {} \/ next_id <= MaxId
    /\ investment' = save_investment(investment, next_id, data)
    /\ next_id' = IF ExistingIds(investment, data) # {} THEN next_id ELSE next_id + 1
    /\ view' = [op |-> "save_investment", ok |-> TRUE,
                existing_id |-> IF ExistingIds(investment, data) # {}
                                THEN Some(Min(ExistingIds(investment, data)))
                                ELSE None]
    /\ UNCHANGED <<portfolio, market, budget, session_state>>

SubmitInvestmentForm ==
    \E data \in InvestmentForms : SaveSubmitted(data)

\* investments.py, tab 2: the delete button of a rendered holding
DeleteInvestment ==
    \E id \in DOMAIN investment :
        /\ HasStockInvestments(investment)
        /\ investment' = delete_investment(investment, id)
        /\ view' = [op |-> "delete_investment", ok |-> TRUE]
        /\ UNCHANGED <<portfolio, next_id, market, budget, session_state>>

HistorySymbols == {key[2] : key \in FormKeys}

\* investments.py, tab 2: totals and the metrics of every holding with a price history
RenderPerformanceTab ==
    \E with_history \in SUBSET HistorySymbols :
        LET investment_data == load_investment(investment)
        IN /\ view' = IF DOMAIN investment_data = {}
                      THEN [op |-> "performance", shown |-> FALSE]
                      ELSE [op |-> "performance", shown |-> TRUE,
                            with_history |-> with_history,
                            totals |-> PerformanceTotals(investment_data),
                            rows |-> PerformanceRows(investment_data, with_history)]
           /\ UNCHANGED <<portfolio, investment, next_id, market, budget, session_state>>

\* portfolio.py, tab 2: calculate_investment_metrics, the detail table and the
\* preset-based rebalancing list
RenderAnalysisTab ==
    \E fetched \in FetchOutcomes, portfolio_type \in PortfolioTypes :
        LET investment_data == load_investment(investment)
            current_exchange_rate == get_current_exchange_rate(fetched)
        IN /\ view' = IF DOMAIN investment_data = {}
                      THEN [op |-> "analysis", shown |-> FALSE]
                      ELSE [op |-> "analysis", shown |-> TRUE,
                            rate |-> current_exchange_rate,
                            metrics |-> calculate_investment_metrics(
                                            investment_data, current_exchange_rate),
                            rows |-> DetailRows(investment_data, current_exchange_rate),
                            portfolio_type |-> portfolio_type,
                            rebalance |-> PresetRebalance(investment_data,
                                              current_exchange_rate, portfolio_type)]
           /\ UNCHANGED <<portfolio, investment, next_id, market, budget, session_state>>

\* portfolio.py, tab 3: the current weights shown above the optimizer settings
RenderOptimizerTab ==
    LET investment_data == load_investment(investment)
    IN /\ view' = IF DOMAIN investment_data = {}
                  THEN [op |-> "optimizer_tab", shown |-> FALSE]
                  ELSE [op |-> "optimizer_tab", shown |-> TRUE,
                        result |-> CurrentWeights(investment_data)]
       /\ UNCHANGED <<portfolio, investment, next_id, market, budget, session_state>>

\* analyze_portfolio over the rows load_investment returns
AnalyzePortfolio ==
    /\ view' = [op |-> "analyze_portfolio", result |-> analyze_portfolio(load_investment(investment))]
    /\ UNCHANGED <<portfolio, investment, next_id, market, budget, session_state>>

NextInvest ==
    \/ SubmitInvestmentForm
    \/ DeleteInvestment
    \/ RenderPerformanceTab
    \/ RenderAnalysisTab
    \/ RenderOptimizerTab
    \/ AnalyzePortfolio

SpecInvest == Init /\ [][NextInvest]_vars

---------------------------------------------------------------------------
(* The investment table under its write operations: the entry form, the   *)
(* edit form, and update_investment and delete_investment called with any *)
(* id (investments.py, data_handler.py)                                   *)

\* the submitted dicts of this part: both currencies, amount 0, purchase rate 0
StoreForms ==
    {FormKrw(key, a, AmountUnit) : key \in FormKeys, a \in Amounts}
    \cup {FormUsd(key, AmountUnit, AmountUnit, pr, DefaultRate) :
            key \in FormKeys, pr \in PurchaseRates}

\* the ids a caller passes: every id handed out so far or not yet
StoreIds == 1..(MaxId + 1)

SubmitStoreForm ==
    \E data \in StoreForms : SaveSubmitted(data)

\* the edit form of a rendered holding, "수정 완료": a USD submit of a holding stored
\* without rates stops at float(None), before update_investment
SubmitEditForm ==
    \E id \in DOMAIN investment, update_data \in StoreForms :
        LET edit_investment == load_investment(investment)[id]
            raises == /\ update_data.currency = "USD"
                      /\ IsNone(edit_investment.purchase_exchange_rate)
        IN /\ HasStockInvestments(investment)
           /\ investment' = IF raises THEN investment
                            ELSE update_investment(investment, id, update_data)
           /\ view' = [op |-> "edit_form", id |-> id, data |-> update_data,
                       result |-> IF raises THEN Raise("TypeError") ELSE [ok |-> TRUE]]
           /\ UNCHANGED <<portfolio, next_id, market, budget, session_state>>

UpdateInvestment ==
    \E id \in StoreIds, data \in StoreForms :
        /\ investment' = update_investment(investment, id, data)
        /\ view' = [op |-> "update_investment", id |-> id, data |-> data, ok |-> TRUE]
        /\ UNCHANGED <<portfolio, next_id, market, budget, session_state>>

DeleteInvestmentById ==
    \E id \in StoreIds :
        /\ investment' = delete_investment(investment, id)
        /\ view' = [op |-> "delete_investment", id |-> id, ok |-> TRUE]
        /\ UNCHANGED <<portfolio, next_id, market, budget, session_state>>

LoadInvestment ==
    /\ view' = [op |-> "load_investment", result |-> load_investment(investment)]
    /\ UNCHANGED <<portfolio, investment, next_id, market, budget, session_state>>

NextStore ==
    \/ SubmitStoreForm
    \/ SubmitEditForm
    \/ UpdateInvestment
    \/ DeleteInvestmentById
    \/ LoadInvestment

SpecStore == Init /\ [][NextStore]_vars

---------------------------------------------------------------------------
(* The three totals computations over stored holdings and form entries *)

\* the tables that at most n submissions of the entry forms leave
RECURSIVE TablesOf(_, _)
TablesOf(forms, n) ==
    IF n = 0 THEN {<<>>}
    ELSE LET prev == TablesOf(forms, n - 1)
         IN prev \cup {save_investment(t, Cardinality(DOMAIN t) + 1, data) :
                          t \in prev, data \in forms}

TablesAfter(n) == TablesOf(InvestmentForms, n)

InitTotals ==
    /\ portfolio = <<>>
    /\ investment \in TablesAfter(MaxId)
    /\ next_id = Cardinality(DOMAIN investment) + 1
    /\ market = NoMarket
    /\ view = NoView
    /\ budget = NoBudget
    /\ session_state = NoSession

NextTotals ==
    \/ RenderPortfolioForm
    \/ RenderPerformanceTab
    \/ RenderAnalysisTab

SpecTotals == InitTotals /\ [][NextTotals]_vars

---------------------------------------------------------------------------
(* Price histories and daily returns (portfolio.py) *)

MaxDates == 2          \* trading dates of the analysis period
Grid == 2              \* a weight the solver returns is a multiple of 1 / Grid

TradingDays == 252     \* returns.mean() * 252, returns.cov() * 252
MinTarget == 0         \* slider min_value, percent
DefaultTarget == 10    \* slider value, percent

IsNaN(x) == "nan" \in DOMAIN x

\* float arithmetic in which nan is absorbing
QAdd(a, b) == IF IsNaN(a) \/ IsNaN(b) THEN NaN ELSE RAdd(a, b)
QMul(a, b) == IF IsNaN(a) \/ IsNaN(b) THEN NaN ELSE RMul(a, b)

RECURSIVE QSum(_, _)
QSum(f, S) ==
    IF S = {} THEN Int2Rat(0)
    ELSE LET k == CHOOSE x \in S : TRUE IN QAdd(f[k], QSum(f, S \ {k}))

Dates == 1..MaxDates
ReturnValues == {-1, 1}    \* daily returns, in percent

\* df['Close'].pct_change().dropna() of one history: date -> return; the empty
\* series is that of a history of at most one price
Series == UNION {[D -> ReturnValues] : D \in SUBSET Dates}

Symbols == HistorySymbols
Markets == [Symbols -> {None} \cup {Some(r) : r \in Series}]

\* None when yfinance raises, else the returns of the history it answers
get_stock_data(symbol) == market[symbol]

\* keys of returns_data in insertion order: the symbols with a history, once each
RECURSIVE Columns(_, _)
Columns(symbols, seen) ==
    IF symbols = <<>> THEN <<>>
    ELSE LET symbol == Head(symbols)
         IN IF IsNone(get_stock_data(symbol)) \/ symbol \in seen
            THEN Columns(Tail(symbols), seen)
            ELSE <<symbol>> \o Columns(Tail(symbols), seen \cup {symbol})

\* pd.DataFrame(returns_data): the index is the union of the dates, a cell of a
\* date a series lacks is nan; None when no symbol has a history
get_daily_returns(symbols) ==
    LET columns == Columns(symbols, {})
        data == [symbol \in {columns[i] : i \in DOMAIN columns} |-> get_stock_data(symbol)[1]]
    IN IF columns = <<>> THEN None
       ELSE Some([columns |-> columns,
                  index |-> UNION {DOMAIN data[symbol] : symbol \in DOMAIN data},
                  data |-> data])

\* returns.mean() * 252 of one column: nan cells are skipped, nan when all are nan
MeanReturn(returns, symbol) ==
    LET r == returns.data[symbol]
    IN IF DOMAIN r = {} THEN NaN
       ELSE Rat(SumOver(r, DOMAIN r) * TradingDays, Cardinality(DOMAIN r))

\* returns.cov() * 252 of two columns: over the dates both have, nan below two
Cov(returns, a, b) ==
    LET ra == returns.data[a]
        rb == returns.data[b]
        D == DOMAIN ra \cap DOMAIN rb
        m == Cardinality(D)
    IN IF m < 2 THEN NaN
       ELSE Rat((m * SumOver([d \in D |-> ra[d] * rb[d]], D)
                   - SumOver(ra, D) * SumOver(rb, D)) * TradingDays,
                m * (m - 1))

\* sqrt(w' C w), kept as the number under the root; nan when that is nan or negative
calculate_portfolio_risk(returns, weights) ==
    LET n == Len(returns.columns)
        cells == [c \in (1..n) \X (1..n) |->
                     QMul(QMul(weights[c[1]], weights[c[2]]),
                          Cov(returns, returns.columns[c[1]], returns.columns[c[2]]))]
        portfolio_var == QSum(cells, DOMAIN cells)
    IN IF IsNaN(portfolio_var) \/ portfolio_var.n < 0 THEN NaN
       ELSE [sqrt_of |-> portfolio_var]

\* np.sum(mean_returns * weights)
ExpectedReturn(returns, weights) ==
    QSum([i \in 1..Len(returns.columns) |->
             QMul(MeanReturn(returns, returns.columns[i]), weights[i])],
         1..Len(returns.columns))

---------------------------------------------------------------------------
(* optimize_portfolio (portfolio.py) and scipy.optimize.minimize *)

init_weights(n_assets) == [i \in 1..n_assets |-> Rat(1, n_assets)]

bounds_wide(n_assets) == [i \in 1..n_assets |-> <<-1, 2>>]

bounds(n_assets) == [i \in 1..n_assets |-> <<0, 1>>]

\* the weights sum to 1; with a target, the annual mean return equals it
constraints(returns, target_return) ==
    <<[type |-> "eq", fun |-> "sum"]>>
    \o (IF IsNone(target_return) THEN <<>>
        ELSE <<[type |-> "eq", fun |-> "target", target |-> target_return[1]]>>)

\* fun(x) of a constraint
ConstraintValue(c, returns, x) ==
    IF c.fun = "sum" THEN QAdd(QSum(x, DOMAIN x), Int2Rat(-1))
    ELSE QAdd(ExpectedReturn(returns, x), Int2Rat(-c.target))

\* the weight vectors the solver searches, in multiples of 1 / Grid
Candidates(n) == {[i \in 1..n |-> Rat(k[i], Grid)] : k \in [1..n -> (-Grid)..(2 * Grid)]}

Feasible(x, bnds, cons, returns) ==
    /\ \A i \in DOMAIN x : RLe(Int2Rat(bnds[i][1]), x[i]) /\ RLe(x[i], Int2Rat(bnds[i][2]))
    /\ \A j \in DOMAIN cons : IsZero(ConstraintValue(cons[j], returns, x))

\* minimize(..., method='SLSQP'): the results it may return.  It fails when there
\* are more equality constraints than variables and may fail otherwise; when it
\* reports success x meets the bounds and the constraints it was given.  With an
\* objective or a constraint that is nan nothing is known of its answer: failure,
\* success at the start point, or success with nan.
minimize(returns, x0, bnds, cons) ==
    LET n == Len(x0)
        columns == returns.columns
        defined ==
            /\ \A i, j \in 1..n : ~IsNaN(Cov(returns, columns[i], columns[j]))
            /\ \A j \in DOMAIN cons : ~IsNaN(ConstraintValue(cons[j], returns, x0))
        failure == [success |-> FALSE, x |-> x0]
    IN IF Len(cons) > n THEN {failure}
       ELSE IF ~defined
       THEN {failure, [success |-> TRUE, x |-> x0],
             [success |-> TRUE, x |-> [i \in 1..n |-> NaN]]}
       ELSE {failure} \cup {[success |-> TRUE, x |-> x] :
                               x \in {y \in Candidates(n) : Feasible(y, bnds, cons, returns)}}

\* lines 128-153: the call of minimize
SolverResults(returns, target_return) ==
    LET n_assets == Len(returns.columns)
    IN minimize(returns, init_weights(n_assets), bounds(n_assets),
                constraints(returns, target_return))

optimize_portfolio_unchecked(returns, target_return, result) ==
    Some([weights |-> [symbol \in {returns.columns[i] : i \in DOMAIN returns.columns} |->
                          result.x[CHOOSE i \in DOMAIN returns.columns :
                                       returns.columns[i] = symbol]],
          risk |-> calculate_portfolio_risk(returns, result.x),
          expected_return |-> ExpectedReturn(returns, result.x)])

\* lines 155-166: the dict of a successful result, None otherwise
optimize_portfolio(returns, target_return, result) ==
    IF result.success
    THEN Some([weights |-> [symbol \in {returns.columns[i] : i \in DOMAIN returns.columns} |->
                               result.x[CHOOSE i \in DOMAIN returns.columns :
                                            returns.columns[i] = symbol]],
               risk |-> calculate_portfolio_risk(returns, result.x),
               expected_return |-> ExpectedReturn(returns, result.x)])
    ELSE None

---------------------------------------------------------------------------
(* The optimization path and the optimizer tab (portfolio.py, tab 3) *)

\* the slider, in percent
SliderTargets == {MinTarget, DefaultTarget}

\* ORDER BY type, name of load_investment: type "etc" stands for a type that
\* sorts before the one "stock" stands for, and the names are the symbols
RowKey(row) ==
    <<IF row.type = "etc" THEN 1 ELSE 2, IF row.name = "AAA" THEN 1 ELSE 2>>

RowBefore(a, b) ==
    RowKey(a)[1] < RowKey(b)[1] \/ (RowKey(a)[1] = RowKey(b)[1] /\ RowKey(a)[2] <= RowKey(b)[2])

\* investments_df['symbol'].dropna().tolist(): the symbols in the order of the rows
SymbolsOf(investment_data) ==
    LET RECURSIVE InOrder(_)
        InOrder(S) ==
            IF S = {} THEN <<>>
            ELSE LET first == CHOOSE i \in S :
                                  \A j \in S : RowBefore(investment_data[i], investment_data[j])
                 IN <<investment_data[first].symbol>> \o InOrder(S \ {first})
    IN InOrder(DOMAIN investment_data)

\* get_daily_returns followed by optimize_portfolio, over the stored symbols
OptimizePortfolio ==
    \E target_return \in {None} \cup {Some(t) : t \in SliderTargets} :
        LET symbols == SymbolsOf(load_investment(investment))
            returns == get_daily_returns(symbols)
        IN /\ IF IsNone(returns)
              THEN view' = [op |-> "optimize_portfolio", symbols |-> symbols,
                            target_return |-> target_return, returns |-> returns,
                            called |-> FALSE, success |-> FALSE, result |-> None]
              ELSE \E result \in SolverResults(returns[1], target_return) :
                       view' = [op |-> "optimize_portfolio", symbols |-> symbols,
                                target_return |-> target_return, returns |-> returns,
                                called |-> TRUE, success |-> result.success,
                                result |-> optimize_portfolio(returns[1], target_return, result)]
           /\ UNCHANGED <<portfolio, investment, next_id, market, budget, session_state>>

OptimizerThreshold == 1    \* if abs(diff) >= 1

\* lines 767-780: the suggestion of every optimized asset.  current_w is the
\* current weight of the first row with that symbol; a nan weight gives a nan
\* diff, which no comparison flags
OptimizerSuggestions(investment_data, current, weights) ==
    [asset \in DOMAIN weights |->
        LET rows == {i \in DOMAIN investment_data : investment_data[i].symbol = asset}
            first == CHOOSE i \in rows :
                         \A j \in rows : RowBefore(investment_data[i], investment_data[j])
            current_w == current.current_weights[first]
            opt_weight == weights[asset]
        IN IF ~IsNum(current_w) \/ ~IsNum(opt_weight)
           THEN [diff |-> NaN, flagged |-> FALSE]
           ELSE LET diff == Times(RAdd(opt_weight, Rat(-current_w.n, current_w.d)), 100)
                IN IF RLe(Int2Rat(OptimizerThreshold), Rat(Abs(diff.n), diff.d))
                   THEN [diff |-> diff, flagged |-> TRUE,
                         action |-> IF diff.n > 0 THEN "buy" ELSE "sell",
                         amount |-> RMul(Rat(Abs(diff.n), diff.d),
                                        Rat(current.total_krw_value, 100))]
                   ELSE [diff |-> diff, flagged |-> FALSE]]

\* the button of tab 3: current weights, market data, optimization, result table,
\* rebalancing suggestions.  The result table is built from one list entry per
\* column of returns and one current weight per holding, which pandas rejects
\* when the two counts differ.
RunOptimizer ==
    \E target \in SliderTargets :
        LET investment_data == load_investment(investment)
            current == CurrentWeights(investment_data)
            symbols == SymbolsOf(investment_data)
            returns == get_daily_returns(symbols)
            Shown(outcome) == [op |-> "optimizer", target |-> target, symbols |-> symbols,
                               returns |-> returns, outcome |-> outcome,
                               called |-> FALSE, success |-> FALSE,
                               result |-> None, suggestions |-> None]
        IN /\ IF DOMAIN investment_data = {}
              THEN view' = [op |-> "optimizer", outcome |-> "no_investments"]
              ELSE IF IsErr(current)
              THEN view' = [op |-> "optimizer", outcome |-> current.err]
              ELSE IF symbols = <<>>
              THEN view' = Shown("no_symbols")
              ELSE IF IsNone(returns) \/ returns[1].index = {}
              THEN view' = Shown("data_error")
              ELSE \E result \in SolverResults(returns[1], Some(target)) :
                       LET optimization_result ==
                               optimize_portfolio(returns[1], Some(target), result)
                           Ran(outcome) == [Shown(outcome) EXCEPT !.called = TRUE,
                                                                  !.success = result.success]
                       IN view' =
                           IF IsNone(optimization_result)
                           THEN Ran("optimization_failed")
                           ELSE IF Len(returns[1].columns) # Cardinality(DOMAIN investment_data)
                           THEN [Ran("ValueError") EXCEPT !.result = optimization_result]
                           ELSE [Ran("result") EXCEPT
                                    !.result = optimization_result,
                                    !.suggestions =
                                        Some(OptimizerSuggestions(investment_data, current,
                                                 optimization_result[1].weights))]
           /\ UNCHANGED <<portfolio, investment, next_id, market, budget, session_state>>

\* the holdings the optimizer is run over: a USD stock and a KRW holding
OptForms ==
    {FormUsd(<<"stock", "AAA">>, AmountUnit, AmountUnit, DefaultRate, DefaultRate),
     FormKrw(<<"etc", "BBB">>, AmountUnit, AmountUnit)}

InitOpt ==
    /\ portfolio = <<>>
    /\ investment \in TablesOf(OptForms, MaxId)
    /\ next_id = Cardinality(DOMAIN investment) + 1
    /\ market \in Markets
    /\ view = NoView
    /\ budget = NoBudget
    /\ session_state = NoSession

NextOpt ==
    \/ OptimizePortfolio
    \/ RunOptimizer

SpecOpt == InitOpt /\ [][NextOpt]_vars

---------------------------------------------------------------------------
(* The two rebalancing lists over holdings of uneven size *)

\* amounts typed into the entry form
RebalanceAmounts == {2504, 5000, 7496}

RebalanceForms ==
    {FormKrw(<<"stock", "AAA">>, a, a) : a \in RebalanceAmounts}
    \cup {FormUsd(<<"stock", "AAA">>, a, a, DefaultRate, DefaultRate) : a \in RebalanceAmounts}
    \cup {FormKrw(<<"etc", "BBB">>, a, a) : a \in RebalanceAmounts}

\* both symbols have a return on every date
FullMarkets == [Symbols -> {Some(r) : r \in [Dates -> ReturnValues]}]

InitRebalance ==
    /\ portfolio = <<>>
    /\ investment \in TablesOf(RebalanceForms, MaxId)
    /\ next_id = Cardinality(DOMAIN investment) + 1
    /\ market \in FullMarkets
    /\ view = NoView
    /\ budget = NoBudget
    /\ session_state = NoSession

NextRebalance ==
    \/ RenderAnalysisTab
    \/ RunOptimizer

SpecRebalance == InitRebalance /\ [][NextRebalance]_vars

---------------------------------------------------------------------------
(* Validator.validate_amount, Validator.validate_exchange_rate             *)
(* (validators.py)                                                         *)

\* a finite float as m millions plus t thousandths, 0 <= t < 10^9: the amounts up to
\* 10^12 with three decimals, which a double tells apart
Finite(m, t) == [m |-> m, t |-> t]
IsFinite(x) == "m" \in DOMAIN x
NegInf == [neginf |-> TRUE]

\* a < b on floats: every comparison with nan is false
FloatLt(a, b) ==
    IF IsNaN(a) \/ IsNaN(b) THEN FALSE
    ELSE IF "neginf" \in DOMAIN a THEN "neginf" \notin DOMAIN b
    ELSE IF "inf" \in DOMAIN b THEN "inf" \notin DOMAIN a
    ELSE IF "inf" \in DOMAIN a \/ "neginf" \in DOMAIN b THEN FALSE
    ELSE a.m < b.m \/ (a.m = b.m /\ a.t < b.t)

\* Validator.MIN_AMOUNT = 0.01, Validator.MAX_AMOUNT = 999999999999.99
MIN_AMOUNT == Finite(0, 10)
MAX_AMOUNT == Finite(999999, 999999990)

\* the strings of this model that float() parses, with the float each gives; float()
\* strips blanks and reads nan and inf in any case
FloatLiterals ==
    ("nan" :> NaN) @@ (" NaN " :> NaN) @@ ("inf" :> Inf) @@ ("-inf" :> NegInf)
    @@ ("0.01" :> Finite(0, 10)) @@ ("0.009" :> Finite(0, 9))
    @@ (" 1300 " :> Finite(0, 1300000)) @@ ("1e3" :> Finite(0, 1000000))
    @@ ("500" :> Finite(0, 500000)) @@ ("499.999" :> Finite(0, 499999))
    @@ ("2000.0" :> Finite(0, 2000000)) @@ ("2000.001" :> Finite(0, 2000001))
    @@ ("999999999999.99" :> Finite(999999, 999999990))
    @@ ("1e12" :> Finite(1000000, 0))

\* an int beyond the range of a double, such as 10 ** 400
HugeInt == [int |-> "10 ** 400"]

\* float(value): ValueError for a string that is no literal, TypeError for None,
\* OverflowError for an int no double holds
float(value) ==
    IF "str" \in DOMAIN value
    THEN IF value.str \in DOMAIN FloatLiterals
         THEN FloatLiterals[value.str] ELSE Raise("ValueError")
    ELSE IF IsNone(value) THEN Raise("TypeError")
    ELSE IF "int" \in DOMAIN value THEN Raise("OverflowError")
    ELSE value

\* round(x, 2) of a float that is no tie between two hundredths; round(nan, 2) is nan
round2(x) ==
    IF ~IsFinite(x) THEN x
    ELSE LET r == x.t % 10
             t == IF r < 5 THEN x.t - r ELSE x.t - r + 10
         IN IF t = 1000000000 THEN Finite(x.m + 1, 0) ELSE Finite(x.m, t)

\* the except clause names ValueError and TypeError only
validate_amount(value) ==
    LET amount == float(value)
    IN IF IsErr(amount)
       THEN IF amount.err \in {"ValueError", "TypeError"}
            THEN Raise("ValidationError") ELSE amount
       ELSE IF FloatLt(amount, MIN_AMOUNT) THEN Raise("ValidationError")
       ELSE IF FloatLt(MAX_AMOUNT, amount) THEN Raise("ValidationError")
       ELSE round2(amount)

validate_exchange_rate(value) ==
    LET rate == float(value)
    IN IF IsErr(rate)
       THEN IF rate.err \in {"ValueError", "TypeError"}
            THEN Raise("ValidationError") ELSE rate
       ELSE IF \/ FloatLt(rate, Finite(0, MIN_EXCHANGE_RATE * 1000))
               \/ FloatLt(Finite(0, MAX_EXCHANGE_RATE * 1000), rate)
       THEN Raise("ValidationError")
       ELSE round2(rate)

\* the values passed to the validators: floats next to each limit, nan and the
\* infinities, strings, None, and an int beyond every double
ValidatorInputs ==
    {Finite(0, t) : t \in {0, 4, 9, 10, 12, 20, 1004, 1300456, AmountUnit * 1000}}
    \cup {Finite(-1, 999999990), Finite(-1, 0), Finite(1000000, 0)}
    \cup {Finite(999999, t) : t \in {999999980, 999999990, 999999994}}
    \cup {Finite(0, MIN_EXCHANGE_RATE * 1000 + d) : d \in {-10, -1, 0, 1, 10}}
    \cup {Finite(0, MAX_EXCHANGE_RATE * 1000 + d) : d \in {-10, -1, 0, 1, 10}}
    \cup {Finite(0, r * 1000) : r \in {DefaultRate - RateStep, DefaultRate,
                                       DefaultRate + RateStep}}
    \cup {[str |-> text] : text \in DOMAIN FloatLiterals}
    \cup {[str |-> text] : text \in {"abc", "", "1,300", "0x10"}}
    \cup {None, NaN, Inf, NegInf, HugeInt}

ValidateAmount ==
    \E value \in ValidatorInputs :
        /\ view' = [op |-> "validate_amount", value |-> value,
                    result |-> validate_amount(value)]
        /\ UNCHANGED <<portfolio, investment, next_id, market, budget, session_state>>

ValidateExchangeRate ==
    \E value \in ValidatorInputs :
        /\ view' = [op |-> "validate_exchange_rate", value |-> value,
                    result |-> validate_exchange_rate(value)]
        /\ UNCHANGED <<portfolio, investment, next_id, market, budget, session_state>>

NextValidate ==
    \/ ValidateAmount
    \/ ValidateExchangeRate

SpecValidate == Init /\ [][NextValidate]_vars

---------------------------------------------------------------------------
(* Validator.validate_date, DataValidator.validate_investment_data         *)
(* (validators.py)                                                         *)

\* a calendar day <<year, month, day>>; datetime.now().date() of the run
Today == <<2025, 6, 15>>

DateLt(a, b) ==
    \/ a[1] < b[1]
    \/ (a[1] = b[1] /\ a[2] < b[2])
    \/ (a[1] = b[1] /\ a[2] = b[2] /\ a[3] < b[3])

\* value.strftime("%Y-%m-%d") of the days of this model
DateText ==
    (<<2024, 1, 2>> :> "2024-01-02") @@ (<<2025, 6, 14>> :> "2025-06-14")
    @@ (<<2025, 6, 15>> :> "2025-06-15") @@ (<<2025, 6, 16>> :> "2025-06-16")
    @@ (<<2999, 12, 31>> :> "2999-12-31") @@ (<<1900, 1, 1>> :> "1900-01-01")
    @@ (<<1899, 12, 31>> :> "1899-12-31")

strftime(day) == [str |-> DateText[day]]

\* the strings datetime.strptime(text, "%Y-%m-%d") parses: the texts above, and
\* the same day written without the leading zeros
DateLiterals ==
    [text \in {DateText[day] : day \in DOMAIN DateText} |->
        CHOOSE day \in DOMAIN DateText : DateText[day] = text]
    @@ ("2024-1-2" :> <<2024, 1, 2>>)

\* strptime raises ValueError for every other string
strptime(text) ==
    IF text \in DOMAIN DateLiterals THEN [date |-> DateLiterals[text]]
    ELSE Raise("ValueError")

\* a date or datetime object is formatted and returned at once; a string is
\* parsed, compared with today and with 1900, and formatted
validate_date(value) ==
    IF "date" \in DOMAIN value THEN strftime(value.date)
    ELSE IF "datetime" \in DOMAIN value THEN strftime(value.datetime)
    ELSE IF IsNone(value) \/ value = [str |-> ""] THEN Raise("ValidationError")
    ELSE LET parsed_date == strptime(value.str)
         IN IF IsErr(parsed_date) THEN Raise("ValidationError")
            ELSE IF DateLt(Today, parsed_date.date) THEN Raise("ValidationError")
            ELSE IF parsed_date.date[1] < 1900 THEN Raise("ValidationError")
            ELSE strftime(parsed_date.date)

DateInputs ==
    {[date |-> day] : day \in DOMAIN DateText}
    \cup {[datetime |-> day] : day \in DOMAIN DateText}
    \cup {[str |-> text] : text \in DOMAIN DateLiterals}
    \cup {[str |-> text] : text \in {"", "2024/01/02", "2024-13-01", "20240102", "abc"}}
    \cup {None}

\* Validator.INVESTMENT_TYPES: 주식, 채권, 펀드, 현금성 자산, 암호화폐, 원자재, Gold, 기타
INVESTMENT_TYPES == {"stock", "bond", "fund", "cash", "crypto", "commodity", "Gold", "etc"}

validate_category(value) ==
    IF value = "" \/ value \notin INVESTMENT_TYPES
    THEN Raise("ValidationError") ELSE [str |-> value]

validate_currency(value) ==
    IF value = "" \/ value \notin Currencies
    THEN Raise("ValidationError") ELSE [str |-> value]

\* the symbols of this model are upper case and match [A-Z0-9.-]+; "A B" does not
validate_symbol(value) ==
    IF value = "" THEN [str |-> ""]
    ELSE IF value \in HistorySymbols THEN [str |-> value]
    ELSE Raise("ValidationError")

\* the names and memos of this model are stripped, short, and free of < > " ' ; \
validate_string(value, required) ==
    IF value = "" THEN IF required THEN Raise("ValidationError") ELSE [str |-> ""]
    ELSE [str |-> value]

\* round(quantity, 4) leaves a float of three decimals as it is
validate_quantity(value) ==
    LET quantity == float(value)
    IN IF IsErr(quantity)
       THEN IF quantity.err \in {"ValueError", "TypeError"}
            THEN Raise("ValidationError") ELSE quantity
       ELSE IF FloatLt(quantity, Finite(0, 0)) THEN Raise("ValidationError")
       ELSE IF FloatLt(MAX_AMOUNT, quantity) THEN Raise("ValidationError")
       ELSE quantity

\* data.get(key): None for a key the dict lacks
DictGet(data, key) == IF key \in DOMAIN data THEN data[key] ELSE None

\* the validators run in the order of the source and the first error is raised;
\* an optional field is validated when data.get gives a value, a rate only for USD
validate_investment_data(data) ==
    LET currency == validate_currency(IF "currency" \in DOMAIN data
                                      THEN data.currency ELSE "KRW")
        usd == ~IsErr(currency) /\ currency.str = "USD"
        Optional(key, validated) ==
            IF IsNone(DictGet(data, key)) THEN <<>> ELSE <<<<key, validated>>>>
        steps ==
            <<<<"type", validate_category(data.type)>>,
              <<"symbol", validate_symbol(data.symbol)>>,
              <<"name", validate_string(data.name, TRUE)>>,
              <<"currency", currency>>,
              <<"amount", validate_amount(DictGet(data, "amount"))>>,
              <<"purchase_date", validate_date(DictGet(data, "purchase_date"))>>,
              <<"memo", validate_string(data.memo, FALSE)>>>>
            \o Optional("purchase_quantity",
                        validate_quantity(DictGet(data, "purchase_quantity")))
            \o Optional("purchase_price", validate_amount(DictGet(data, "purchase_price")))
            \o Optional("current_price", validate_amount(DictGet(data, "current_price")))
            \o Optional("current_amount", validate_amount(DictGet(data, "current_amount")))
            \o (IF usd
                THEN Optional("purchase_exchange_rate",
                              validate_exchange_rate(DictGet(data, "purchase_exchange_rate")))
                     \o Optional("current_exchange_rate",
                                 validate_exchange_rate(DictGet(data, "current_exchange_rate")))
                ELSE <<>>)
        raised == {i \in DOMAIN steps : IsErr(steps[i][2])}
    IN IF raised # {} THEN steps[Min(raised)][2]
       ELSE [key \in {steps[i][1] : i \in DOMAIN steps} |->
                steps[CHOOSE i \in DOMAIN steps : steps[i][1] = key][2]]

\* the rates a dict carries: none, 0, one below the range, one inside, nan
RateInputs == {None, Finite(0, 0), Finite(0, (MIN_EXCHANGE_RATE - RateStep) * 1000),
               Finite(0, DefaultRate * 1000), NaN}

\* dicts of a valid type, symbol, name and memo; the currency key may be missing
InvestmentInputs ==
    LET base == [type |-> "stock", symbol |-> "AAA", name |-> "AAA", memo |-> ""]
        With(f, key, value) == IF IsNone(value) THEN f ELSE f @@ (key :> value)
    IN {With(With(base @@ c @@ [amount |-> a, purchase_date |-> d],
                  "purchase_exchange_rate", pr), "current_exchange_rate", cr) :
           c \in {<<>>, [currency |-> "KRW"], [currency |-> "USD"], [currency |-> "EUR"]},
           a \in {Finite(0, AmountUnit * 1000), Finite(0, 0)},
           d \in {[str |-> "2024-01-02"], [str |-> "2025-06-16"]},
           pr \in RateInputs, cr \in RateInputs}

ValidateDate ==
    \E value \in DateInputs :
        /\ view' = [op |-> "validate_date", value |-> value,
                    result |-> validate_date(value)]
        /\ UNCHANGED <<portfolio, investment, next_id, market, budget, session_state>>

ValidateInvestmentData ==
    \E data \in InvestmentInputs :
        /\ view' = [op |-> "validate_investment_data", data |-> data,
                    result |-> validate_investment_data(data)]
        /\ UNCHANGED <<portfolio, investment, next_id, market, budget, session_state>>

NextValidateData ==
    \/ ValidateDate
    \/ ValidateInvestmentData

SpecValidateData == Init /\ [][NextValidateData]_vars

---------------------------------------------------------------------------
(* Write transactions of FinanceDataHandler: save_budget, save_portfolio,  *)
(* load_budget (data_handler.py)                                           *)

BudgetMonths == {"2025-01", "2025-02"}
BudgetCategories == {"food", "transport"}

\* the tables one connection reads and writes
Database == [budget |-> budget, portfolio |-> portfolio]

\* cursor.execute of one statement on the connection's uncommitted image of the
\* database; amount is NOT NULL in both tables and budget is UNIQUE(month, category)
execute(db, statement) ==
    CASE statement.sql = "DELETE FROM budget" ->
            [db EXCEPT !.budget =
                [key \in {k \in DOMAIN db.budget : k[1] # statement.month} |-> db.budget[key]]]
      [] statement.sql = "INSERT INTO budget" ->
            LET key == <<statement.month, statement.category>>
            IN IF IsNone(statement.amount) \/ key \in DOMAIN db.budget
               THEN Raise("IntegrityError")
               ELSE [db EXCEPT !.budget =
                        [k \in DOMAIN db.budget \cup {key} |->
                            IF k = key THEN statement.amount[1] ELSE db.budget[k]]]
      [] statement.sql = "INSERT OR REPLACE INTO portfolio" ->
            LET asset_data == statement.asset_data
            IN IF "amount" \notin DOMAIN asset_data THEN Raise("KeyError")
               ELSE IF IsNone(asset_data.amount) THEN Raise("IntegrityError")
               ELSE [db EXCEPT !.portfolio =
                        save_portfolio(db.portfolio,
                            [k \in {statement.asset_type} |->
                                [currency |-> IF "currency" \in DOMAIN asset_data
                                              THEN asset_data.currency ELSE "KRW",
                                 amount |-> asset_data.amount[1],
                                 purchase_exchange_rate |->
                                     IF "purchase_exchange_rate" \in DOMAIN asset_data
                                     THEN asset_data.purchase_exchange_rate ELSE None]])]

\* the statements of one handler in order: the image after the last one, or the
\* first exception
RECURSIVE run(_, _)
run(db, statements) ==
    IF statements = <<>> THEN db
    ELSE LET image == execute(db, Head(statements))
         IN IF IsErr(image) THEN image ELSE run(image, Tail(statements))

\* the image the statements before the first exception leave
RECURSIVE run_partial(_, _)
run_partial(db, statements) ==
    IF statements = <<>> THEN db
    ELSE LET image == execute(db, Head(statements))
         IN IF IsErr(image) THEN db ELSE run_partial(image, Tail(statements))

\* a connection in autocommit mode: every executed statement is persisted at once
get_db_connection_autocommit(db, statements) ==
    LET image == run(db, statements)
    IN IF IsErr(image)
       THEN [ok |-> FALSE, raised |-> Some(image.err), db |-> run_partial(db, statements)]
       ELSE [ok |-> TRUE, raised |-> None, db |-> image]

\* try: with get_db_connection() as conn: <statements>; conn.commit(); return True
\* except Exception: return False.  The finally clause of get_db_connection closes the
\* connection, and closing without a commit discards the uncommitted image
get_db_connection(db, statements) ==
    LET image == run(db, statements)
    IN IF IsErr(image)
       THEN [ok |-> FALSE, raised |-> Some(image.err), db |-> db]
       ELSE [ok |-> TRUE, raised |-> None, db |-> image]

\* save_budget without its DELETE statement
budget_statements_no_delete(data) ==
    [i \in 1..Len(data.categories) |->
        [sql |-> "INSERT INTO budget", month |-> data.month,
         category |-> data.categories[i][1], amount |-> data.categories[i][2]]]

\* the statements of save_budget: data["categories"] is a dict, here the sequence of
\* its items in insertion order
budget_statements(data) ==
    <<[sql |-> "DELETE FROM budget", month |-> data.month]>>
    \o [i \in 1..Len(data.categories) |->
        [sql |-> "INSERT INTO budget", month |-> data.month,
         category |-> data.categories[i][1], amount |-> data.categories[i][2]]]

save_budget(db, data) == get_db_connection(db, budget_statements(data))

\* the statements of save_portfolio: one INSERT OR REPLACE per item of the dict
portfolio_statements(data) ==
    [i \in 1..Len(data) |->
        [sql |-> "INSERT OR REPLACE INTO portfolio",
         asset_type |-> data[i][1], asset_data |-> data[i][2]]]

\* load_budget(month): {month: {"categories": {...}, "total": sum}} of the rows
\* selected, every month when the argument is None
load_budget(table, month) ==
    LET rows == {k \in DOMAIN table : IsNone(month) \/ k[1] = month[1]}
    IN [m \in {k[1] : k \in rows} |->
           LET categories == [c \in {k[2] : k \in {r \in rows : r[1] = m}} |-> table[<<m, c>>]]
           IN [categories |-> categories,
               total |-> SumOver(categories, DOMAIN categories)]]

\* a dict over the keys as the sequences of its items, every insertion order
DictItems(keys, values) ==
    UNION {{items \in [1..n -> keys \X values] :
                \A i, j \in 1..n : i # j => items[i][1] # items[j][1]} :
           n \in 0..Cardinality(keys)}

\* amounts a caller passes: a number, or None
BudgetData ==
    {[month |-> m, categories |-> c] :
        m \in BudgetMonths, c \in DictItems(BudgetCategories, {Some(a) : a \in Amounts} \cup {None})}

\* two asset types are written; an entry may lack its amount or carry None
PortfolioData ==
    DictItems({asset_types[1], asset_types[2]},
              {[amount |-> Some(AmountUnit), currency |-> "KRW"],
               [amount |-> None, currency |-> "KRW"],
               [currency |-> "KRW"]})

SaveBudget ==
    \E data \in BudgetData :
        LET done == save_budget(Database, data)
        IN /\ view' = [op |-> "save_budget", data |-> data, ok |-> done.ok,
                       raised |-> done.raised]
           /\ budget' = done.db.budget
           /\ portfolio' = done.db.portfolio
           /\ UNCHANGED <<investment, next_id, market, session_state>>

SavePortfolio ==
    \E data \in PortfolioData :
        LET done == get_db_connection(Database, portfolio_statements(data))
        IN /\ view' = [op |-> "save_portfolio", data |-> data, ok |-> done.ok,
                       raised |-> done.raised]
           /\ budget' = done.db.budget
           /\ portfolio' = done.db.portfolio
           /\ UNCHANGED <<investment, next_id, market, session_state>>

LoadBudget ==
    \E month \in {Some(m) : m \in BudgetMonths} \cup {None} :
        /\ view' = [op |-> "load_budget", month |-> month,
                    result |-> load_budget(budget, month)]
        /\ UNCHANGED <<portfolio, investment, next_id, market, budget, session_state>>

NextWrites ==
    \/ SaveBudget
    \/ SavePortfolio
    \/ LoadBudget

SpecWrites == Init /\ [][NextWrites]_vars

---------------------------------------------------------------------------
(* The holdings list of the performance tab: edit and delete buttons, the  *)
(* edit form and its session state (investments.py, tab 2)                 *)

\* the dicts submitted here: purchase price and current price differ in some
PageForms ==
    {[FormKrw(key, AmountUnit, AmountUnit) EXCEPT
          !.purchase_price = AmountUnit, !.current_price = c] :
        key \in FormKeys, c \in Amounts}
    \cup {FormUsd(key, AmountUnit, AmountUnit, DefaultRate, DefaultRate) : key \in FormKeys}

\* ORDER BY type, name of load_investment: the type names (주식, 기타, ...) and the
\* product names in the binary order of their text
TypeOrder == <<"Gold", "etc", "crypto", "commodity", "stock", "bond", "fund", "cash">>
NameOrder == <<"AAA", "BBB">>

IndexOf(seq, x) == CHOOSE i \in 1..Len(seq) : seq[i] = x

\* row i comes before row j; rows equal in type and name come in rowid order
Before(investment_data, i, j) ==
    LET ti == IndexOf(TypeOrder, investment_data[i].type)
        tj == IndexOf(TypeOrder, investment_data[j].type)
        ni == IndexOf(NameOrder, investment_data[i].name)
        nj == IndexOf(NameOrder, investment_data[j].name)
    IN \/ ti < tj
       \/ ti = tj /\ ni < nj
       \/ ti = tj /\ ni = nj /\ i < j

\* investment_data.items() in the order of the rows
RenderOrder(investment_data) ==
    [n \in 1..Cardinality(DOMAIN investment_data) |->
        CHOOSE i \in DOMAIN investment_data :
            Cardinality({j \in DOMAIN investment_data : Before(investment_data, j, i)}) = n - 1]

\* for investment_id, investment in investment_data.items(): the edit button of the
\* holding, when clicked in this run, sets the session state; the form is shown
\* when the session state names the holding
RECURSIVE HoldingsLoop(_, _, _, _)
HoldingsLoop(order, investment_data, state, edit_clicked) ==
    IF order = <<>> THEN [forms |-> <<>>, state |-> state]
    ELSE LET investment_id == Head(order)
             clicked == IF edit_clicked = Some(investment_id)
                        THEN [edit_investment |-> Some(investment_data[investment_id]),
                              edit_investment_id |-> Some(investment_id),
                              show_edit_form |-> TRUE]
                        ELSE state
             shown == /\ clicked.show_edit_form
                      /\ clicked.edit_investment_id = Some(investment_id)
             rest == HoldingsLoop(Tail(order), investment_data, clicked, edit_clicked)
         IN [forms |-> (IF shown THEN <<investment_id>> ELSE <<>>) \o rest.forms,
             state |-> rest.state]

\* one run of the script through the tab: nothing is listed without a stock holding
RenderHoldings(investment_data, state, edit_clicked) ==
    IF HasStockInvestments(investment_data)
    THEN HoldingsLoop(RenderOrder(investment_data), investment_data, state, edit_clicked)
    ELSE [forms |-> <<>>, state |-> state]

\* update_data of a submit with every input left at the value the form opened
\* with: edit_price is the purchase price and is sent as current_price too; the
\* quantities stored here are whole, so int(...) keeps them; the rate inputs exist
\* for USD only, and float(None) raises TypeError
EditDefaults(edit_investment) ==
    LET edit_price == edit_investment.purchase_price
        edit_date == strptime(edit_investment.purchase_date)
        rate(stored) == IF IsNone(stored) THEN Raise("TypeError") ELSE stored[1]
    IN IF edit_investment.currency = "USD"
       THEN [type |-> edit_investment.type, symbol |-> edit_investment.symbol,
             name |-> edit_investment.name,
             purchase_quantity |-> edit_investment.purchase_quantity,
             purchase_price |-> edit_price, current_price |-> edit_price,
             currency |-> edit_investment.currency,
             amount |-> edit_investment.amount,
             current_amount |-> edit_investment.current_amount,
             purchase_exchange_rate |-> rate(edit_investment.purchase_exchange_rate),
             current_exchange_rate |-> rate(edit_investment.current_exchange_rate),
             purchase_date |-> strftime(edit_date.date).str,
             memo |-> edit_investment.memo]
       ELSE [type |-> edit_investment.type, symbol |-> edit_investment.symbol,
             name |-> edit_investment.name,
             purchase_quantity |-> edit_investment.purchase_quantity,
             purchase_price |-> edit_price, current_price |-> edit_price,
             currency |-> edit_investment.currency,
             amount |-> edit_investment.amount,
             current_amount |-> edit_investment.current_amount,
             purchase_date |-> strftime(edit_date.date).str,
             memo |-> edit_investment.memo]

\* the edit forms on the screen
FormsOnScreen == IF "forms" \in DOMAIN view THEN {view.forms[i] : i \in 1..Len(view.forms)} ELSE {}

\* the form of this holding is rendered by the next run of the script
FormRendered(form_id) ==
    /\ HasStockInvestments(investment)
    /\ form_id \in DOMAIN investment
    /\ session_state.show_edit_form
    /\ session_state.edit_investment_id = Some(form_id)

\* tab 1, the entry form: the holding is saved and the same run lists the holdings
SubmitPageForm ==
    \E data \in PageForms :
        /\ ExistingIds(investment, data) # {} \/ next_id <= MaxId
        /\ investment' = save_investment(investment, next_id, data)
        /\ next_id' = IF ExistingIds(investment, data) # {} THEN next_id ELSE next_id + 1
        /\ view' = [op |-> "save_investment",
                    forms |-> RenderHoldings(investment', session_state, None).forms]
        /\ UNCHANGED <<portfolio, market, budget, session_state>>

\* the edit button of a listed holding
ClickEdit ==
    \E id \in DOMAIN investment :
        LET listed == RenderHoldings(load_investment(investment), session_state, Some(id))
        IN /\ HasStockInvestments(investment)
           /\ session_state' = listed.state
           /\ view' = [op |-> "edit_click", id |-> id, forms |-> listed.forms]
           /\ UNCHANGED <<portfolio, investment, next_id, market, budget>>

\* the delete button of a listed holding: delete_investment, st.rerun()
ClickDelete ==
    \E id \in DOMAIN investment :
        /\ HasStockInvestments(investment)
        /\ investment' = delete_investment(investment, id)
        /\ view' = [op |-> "delete_click", id |-> id,
                    forms |-> RenderHoldings(investment', session_state, None).forms]
        /\ UNCHANGED <<portfolio, next_id, market, budget, session_state>>

\* "수정 완료" of an edit form on the screen.  A form the run no longer renders takes
\* no submit.  The rate inputs of a USD submit raise TypeError for a holding opened
\* without rates; update_investment returns False on a database error, and on True
\* the form is closed and the script rerun
ClickSubmit ==
    \E form_id \in FormsOnScreen, db_error \in BOOLEAN :
        \E update_data \in PageForms \cup
                {EditDefaults(session_state.edit_investment[1]) : x \in {1}} :
            LET edit_investment == session_state.edit_investment[1]
                raises == /\ update_data.currency = "USD"
                          /\ IsNone(edit_investment.purchase_exchange_rate)
                listed == RenderHoldings(load_investment(investment), session_state, None)
            IN IF ~FormRendered(form_id)
               THEN /\ view' = [op |-> "submit_click", form |-> form_id, data |-> update_data,
                                result |-> "not rendered", forms |-> listed.forms]
                    /\ UNCHANGED <<portfolio, investment, next_id, market, budget,
                                   session_state>>
               ELSE IF raises
               THEN /\ view' = [op |-> "submit_click", form |-> form_id, data |-> update_data,
                                result |-> "TypeError", forms |-> <<form_id>>]
                    /\ UNCHANGED <<portfolio, investment, next_id, market, budget,
                                   session_state>>
               ELSE IF db_error
               THEN /\ view' = [op |-> "submit_click", form |-> form_id, data |-> update_data,
                                result |-> "failed", forms |-> listed.forms]
                    /\ UNCHANGED <<portfolio, investment, next_id, market, budget,
                                   session_state>>
               ELSE /\ investment' = update_investment(
                                         investment, session_state.edit_investment_id[1],
                                         update_data)
                    /\ session_state' = [session_state EXCEPT !.show_edit_form = FALSE]
                    /\ view' = [op |-> "submit_click", form |-> form_id, data |-> update_data,
                                result |-> "updated",
                                forms |-> RenderHoldings(investment', session_state',
                                                         None).forms]
                    /\ UNCHANGED <<portfolio, next_id, market, budget>>

\* "취소" of an edit form on the screen: the form is closed and the script rerun
ClickCancel ==
    \E form_id \in FormsOnScreen :
        /\ session_state' = IF FormRendered(form_id)
                            THEN [session_state EXCEPT !.show_edit_form = FALSE]
                            ELSE session_state
        /\ view' = [op |-> "cancel_click", form |-> form_id,
                    closed |-> FormRendered(form_id),
                    forms |-> RenderHoldings(load_investment(investment), session_state',
                                             None).forms]
        /\ UNCHANGED <<portfolio, investment, next_id, market, budget>>

NextPage ==
    \/ SubmitPageForm
    \/ ClickEdit
    \/ ClickDelete
    \/ ClickSubmit
    \/ ClickCancel

SpecPage == Init /\ [][NextPage]_vars

---------------------------------------------------------------------------
(* Properties *)

\* the purchase amount of a holding in KRW at its own purchase-time rate
RefPurchase(h) ==
    IF h.currency = "KRW" THEN h.amount ELSE h.amount * h.purchase_exchange_rate[1]

\* the current amount of a holding in KRW at the rate r
RefCurrentAt(h, r) ==
    LET current == IF "current_amount" \in DOMAIN h THEN h.current_amount ELSE h.amount
    IN IF h.currency = "KRW" THEN current ELSE current * r

RefTotalPurchase(hs) == SumOver([k \in DOMAIN hs |-> RefPurchase(hs[k])], DOMAIN hs)
RefTotalCurrentAt(hs, r) == SumOver([k \in DOMAIN hs |-> RefCurrentAt(hs[k], r)], DOMAIN hs)
RefTotalCurrentOwnRate(hs) ==
    SumOver([k \in DOMAIN hs |->
                RefCurrentAt(hs[k], IF hs[k].currency = "USD"
                                    THEN hs[k].current_exchange_rate[1] ELSE 1)],
            DOMAIN hs)

FormTotalsRight ==
    view.op = "portfolio_form" =>
        /\ view.metrics.total = RefTotalPurchase(view.data)
        /\ view.metrics.total_krw = RefTotalCurrentAt(view.data, view.rate)

PerformanceTotalsRight ==
    (view.op = "performance" /\ view.shown) =>
        /\ view.totals.total_krw_investment = RefTotalPurchase(investment)
        /\ view.totals.total_krw_evaluation = RefTotalCurrentOwnRate(investment)

\* C2 as stated: every totals computation returns total purchase = the sum of the
\* purchase amounts, each converted at the holding's purchase-time rate (KRW
\* unconverted), and total current = the sum of the current amounts converted at
\* the current rate; calculate_investment_metrics is one of them.
C2_TotalsAtPurchaseTimeRate ==
    /\ FormTotalsRight
    /\ PerformanceTotalsRight
    /\ (view.op = "analysis" /\ view.shown) =>
           /\ view.metrics.total_investment = RefTotalPurchase(investment)
           /\ view.metrics.total_value = RefTotalCurrentAt(investment, view.rate)

\* C2 amended: calculate_portfolio_metrics and the performance-tab totals convert
\* each purchase amount at the holding's purchase-time rate and each current
\* amount at the current rate (the caller's rate, resp. the holding's stored
\* current rate); calculate_investment_metrics converts the purchase amounts and
\* the current amounts alike at the one current rate its caller passes.
C2_TotalsPerCallSite ==
    /\ FormTotalsRight
    /\ PerformanceTotalsRight
    /\ (view.op = "analysis" /\ view.shown) =>
           /\ view.metrics.total_investment =
                  SumOver([k \in DOMAIN investment |->
                              IF investment[k].currency = "KRW" THEN investment[k].amount
                              ELSE investment[k].amount * view.rate], DOMAIN investment)
           /\ view.metrics.total_value = RefTotalCurrentAt(investment, view.rate)

\* a USD holding bought at a rate other than the current one, and its totals computed
C2_Witness ==
    /\ view.op = "analysis" /\ view.shown
    /\ \E k \in DOMAIN investment :
           /\ investment[k].currency = "USD" /\ investment[k].amount > 0
           /\ investment[k].purchase_exchange_rate[1] # view.rate
    /\ \E k \in DOMAIN investment : investment[k].currency = "KRW"

\* C3: convert_to_krw and calculate_krw_amount return a KRW amount unchanged
\* whatever the rate argument is (missing, zero, negative, positive), and return
\* amount * rate for a USD amount and a positive rate.
C3_ConversionIdentityAndProduct ==
    view.op \in {"convert_to_krw", "calculate_krw_amount"} =>
        /\ view.currency = "KRW" => view.result = Int2Rat(view.amount)
        /\ (view.currency = "USD" /\ ~IsNone(view.rate) /\ view.rate[1] > 0) =>
               view.result = Int2Rat(view.amount * view.rate[1])

\* a KRW amount converted with a negative rate argument
C3_Witness ==
    /\ view.op = "convert_to_krw" /\ view.currency = "KRW"
    /\ view.rate = Some(-DefaultRate) /\ view.amount = AmountUnit

\* C9 as stated: a conversion of a USD amount without a positive rate (missing,
\* zero or negative) fails instead of returning a value; any exception raised is
\* taken for the InvalidRate condition.
C9_UsdWithoutPositiveRateFails ==
    (/\ view.op \in {"convert_to_krw", "calculate_krw_amount"}
     /\ view.currency = "USD"
     /\ (IsNone(view.rate) \/ view.rate[1] <= 0)) => IsErr(view.result)

AllZeroWeights(w) == ~IsErr(w) /\ \A k \in DOMAIN w : IsZero(w[k])

\* C4 as stated: for non-empty holdings whose total current value in KRW is zero,
\* every weight computation (calculate_portfolio_metrics, main_dashboard, the
\* optimizer tab, analyze_portfolio) yields a zero weight for every holding and
\* raises nothing.
C4_ZeroTotalZeroWeights ==
    /\ (view.op = "portfolio_form" /\ view.metrics.total_krw = 0) =>
           AllZeroWeights(view.metrics.weights)
    /\ (/\ view.op = "dashboard" /\ DOMAIN portfolio # {}
        /\ \A k \in DOMAIN portfolio : portfolio[k].amount = 0) =>
           /\ ~IsErr(view.result)
           /\ AllZeroWeights(view.result.weights)
    /\ (/\ view.op = "optimizer_tab" /\ view.shown
        /\ RefTotalCurrentOwnRate(investment) = 0) =>
           /\ ~IsErr(view.result)
           /\ AllZeroWeights(view.result.current_weights)
    /\ (/\ view.op = "analyze_portfolio" /\ DOMAIN investment # {}
        /\ \A i \in DOMAIN investment : AnalysisKrwAmount(investment[i]) = 0) =>
           /\ ~IsErr(view.result)
           /\ AllZeroWeights(view.result.asset_allocation)

\* |sum of the weights - 100| <= 0.1 * number of holdings
SumsToHundred(w) ==
    LET s == RSumOver(w, DOMAIN w)
    IN 10 * Abs(s.n - 100 * s.d) <= Cardinality(DOMAIN w) * s.d

\* C5 as stated: for every non-empty set of holdings the weights of
\* calculate_portfolio_metrics sum to 100 within 0.1 * the number of holdings.
C5_WeightsSumToHundred ==
    view.op = "portfolio_form" => SumsToHundred(view.metrics.weights)

\* C5 amended: for every non-empty set of holdings whose total current KRW value
\* is not zero the weights of calculate_portfolio_metrics sum to 100 within
\* 0.1 * the number of holdings; when that total is zero they sum to 0.
C5_WeightsSumToHundredUnlessZeroTotal ==
    view.op = "portfolio_form" =>
        IF view.metrics.total_krw # 0
        THEN SumsToHundred(view.metrics.weights)
        ELSE RSumOver(view.metrics.weights, DOMAIN view.metrics.weights).n = 0

\* a KRW and a USD holding, both non-zero, the USD one bought at another rate
C5_Witness ==
    /\ view.op = "portfolio_form" /\ view.metrics.total_krw # 0
    /\ \E k \in DOMAIN view.data : view.data[k].currency = "KRW" /\ view.data[k].amount > 0
    /\ \E k \in DOMAIN view.data :
           /\ view.data[k].currency = "USD" /\ view.data[k].amount > 0
           /\ view.data[k].purchase_exchange_rate # Some(view.rate)

\* the purchase amount a holding's return on the performance tab is divided by
RowDivisor(h) == IF h.currency = "USD" THEN RefPurchase(h) ELSE h.amount

\* C6: every return-percentage computation (the total and the per-holding
\* returns of the performance tab, the total profit rate of
\* calculate_investment_metrics, the profit rate of the detail table) returns
\* exactly 0 when the purchase amount it divides by is 0, and never raises.
C6_ZeroDivisorZeroReturn ==
    /\ (view.op = "performance" /\ view.shown) =>
           /\ IsNum(view.totals.total_returns)
           /\ view.totals.total_krw_investment = 0 => view.totals.total_returns = Int2Rat(0)
           /\ \A i \in DOMAIN view.rows :
                  /\ IsNum(view.rows[i].returns)
                  /\ RowDivisor(investment[i]) = 0 => view.rows[i].returns = Int2Rat(0)
    /\ (view.op = "analysis" /\ view.shown) =>
           /\ IsNum(view.metrics.total_profit_rate)
           /\ view.metrics.total_investment = 0 =>
                  view.metrics.total_profit_rate = Int2Rat(0)
           /\ \A i \in DOMAIN view.rows :
                  /\ IsNum(view.rows[i].profit_rate)
                  /\ investment[i].amount = 0 => view.rows[i].profit_rate = Int2Rat(0)

\* a holding with a positive current amount and a zero purchase amount, rendered
C6_Witness ==
    /\ view.op = "performance" /\ view.shown
    /\ view.totals.total_krw_investment = 0 /\ view.totals.total_krw_evaluation > 0
    /\ \E i \in DOMAIN view.rows :
           RowDivisor(investment[i]) = 0 /\ investment[i].current_amount > 0

UsdPositive(h) ==
    h.currency = "USD" /\ h.amount > 0 /\ h.purchase_exchange_rate[1] > 0

\* C7: for a USD holding with a positive purchase amount and a positive purchase
\* rate, the reporting-currency return (performance tab) is computed from the
\* purchase amount at the purchase-time rate and the current amount at the
\* current rate, the native return (detail table) from the unconverted amounts;
\* when the current amount equals the purchase amount the native return is 0 and
\* the reporting-currency return equals the exchange effect.
C7_ReportingAndNativeReturn ==
    /\ (view.op = "performance" /\ view.shown) =>
           \A i \in DOMAIN view.rows :
               UsdPositive(investment[i]) =>
                   LET h == investment[i]
                       bought == h.amount * h.purchase_exchange_rate[1]
                       worth == h.current_amount * h.current_exchange_rate[1]
                   IN /\ REq(view.rows[i].returns, Rat((worth - bought) * 100, bought))
                      /\ h.current_amount = h.amount =>
                             /\ ~IsNone(view.rows[i].exchange_effect)
                             /\ REq(view.rows[i].returns, view.rows[i].exchange_effect[1])
    /\ (view.op = "analysis" /\ view.shown) =>
           \A i \in DOMAIN view.rows :
               UsdPositive(investment[i]) =>
                   LET h == investment[i]
                   IN /\ REq(view.rows[i].profit_rate,
                             Rat((h.current_amount - h.amount) * 100, h.amount))
                      /\ h.current_amount = h.amount => IsZero(view.rows[i].profit_rate)

\* a USD holding whose price did not move while the rate did, on the performance tab
C7_Witness ==
    /\ view.op = "performance" /\ view.shown
    /\ \E i \in DOMAIN view.rows :
           /\ UsdPositive(investment[i])
           /\ investment[i].current_amount = investment[i].amount
           /\ investment[i].current_exchange_rate # investment[i].purchase_exchange_rate
           /\ ~IsZero(view.rows[i].returns)

\* C8 as stated: the exchange effect of a holding is
\* (current_rate - purchase_rate) / purchase_rate * 100 for every USD holding
\* and zero for every KRW holding.
C8_ExchangeEffectFormula ==
    (view.op = "performance" /\ view.shown) =>
        \A i \in DOMAIN view.rows :
            LET h == investment[i]
                e == view.rows[i].exchange_effect
            IN /\ ~IsNone(e)
               /\ IF h.currency = "USD"
                  THEN /\ h.purchase_exchange_rate[1] # 0
                       /\ REq(e[1], Rat((h.current_exchange_rate[1]
                                           - h.purchase_exchange_rate[1]) * 100,
                                        Abs(h.purchase_exchange_rate[1])))
                  ELSE IsZero(e[1])

\* C8 amended: the exchange effect is
\* (current_rate - purchase_rate) / purchase_rate * 100 for every USD holding
\* whose purchase rate is positive and 0 for a USD holding whose purchase rate
\* is not positive; for a KRW holding no exchange effect is computed or shown.
C8_ExchangeEffectPerCurrency ==
    (view.op = "performance" /\ view.shown) =>
        \A i \in DOMAIN view.rows :
            LET h == investment[i]
                e == view.rows[i].exchange_effect
            IN IF h.currency = "USD"
               THEN /\ ~IsNone(e)
                    /\ view.rows[i].shown_effect = e
                    /\ IF h.purchase_exchange_rate[1] > 0
                       THEN REq(e[1], Rat((h.current_exchange_rate[1]
                                             - h.purchase_exchange_rate[1]) * 100,
                                          h.purchase_exchange_rate[1]))
                       ELSE e[1] = Int2Rat(0)
               ELSE IsNone(e) /\ IsNone(view.rows[i].shown_effect)

\* a USD holding bought at a positive rate that has moved since, and a KRW holding
C8_Witness ==
    /\ view.op = "performance" /\ view.shown
    /\ \E i \in DOMAIN view.rows :
           /\ investment[i].currency = "USD"
           /\ investment[i].purchase_exchange_rate[1] > 0
           /\ investment[i].current_exchange_rate # investment[i].purchase_exchange_rate
    /\ \E i \in DOMAIN view.rows : investment[i].currency = "KRW"

\* the dates on which every column of the return matrix has a return
Overlap(returns) ==
    {d \in returns.index : \A symbol \in DOMAIN returns.data : d \in DOMAIN returns.data[symbol]}

\* C1: for a return matrix with at least 2 instruments and at least 2
\* overlapping dates and no target return, a successful optimize_portfolio
\* returns one weight per instrument, each weight in [0, 1], the weights summing
\* to 1.
C1_WeightsInUnitIntervalSumToOne ==
    (/\ view.op = "optimize_portfolio" /\ ~IsNone(view.returns)
     /\ IsNone(view.target_return)
     /\ Len(view.returns[1].columns) >= 2
     /\ Cardinality(Overlap(view.returns[1])) >= 2
     /\ ~IsNone(view.result)) =>
        LET weights == view.result[1].weights
            columns == view.returns[1].columns
        IN /\ DOMAIN weights = {columns[i] : i \in DOMAIN columns}
           /\ Cardinality(DOMAIN weights) = Len(columns)
           /\ \A symbol \in DOMAIN weights :
                  /\ IsNum(weights[symbol])
                  /\ RLe(Int2Rat(0), weights[symbol]) /\ RLe(weights[symbol], Int2Rat(1))
           /\ REq(RSumOver(weights, DOMAIN weights), Int2Rat(1))

\* two instruments with a return on both dates, optimized without a target, each
\* given a positive weight
C1_Witness ==
    /\ view.op = "optimize_portfolio" /\ ~IsNone(view.returns)
    /\ IsNone(view.target_return)
    /\ Len(view.returns[1].columns) = 2
    /\ Cardinality(Overlap(view.returns[1])) >= 2
    /\ ~IsNone(view.result)
    /\ \A symbol \in DOMAIN view.result[1].weights : view.result[1].weights[symbol].n > 0

\* fewer than 2 instruments with a return history, or fewer than 2 dates on
\* which all instruments have a return
Insufficient(returns) ==
    \/ IsNone(returns)
    \/ Cardinality({symbol \in DOMAIN returns[1].data : DOMAIN returns[1].data[symbol] # {}}) < 2
    \/ Cardinality(Overlap(returns[1])) < 2

\* C10 as stated: when fewer than 2 instruments have a valid return history, or
\* fewer than 2 dates overlap across all instruments, the optimization path
\* signals InsufficientData and returns no weight vector.  A None of the path and
\* the market-data message of the tab are taken for that signal; the
\* optimization-failed message, which asks for another target return, is not.
C10_InsufficientDataSignalled ==
    /\ (view.op = "optimize_portfolio" /\ Insufficient(view.returns)) =>
           IsNone(view.result)
    /\ (/\ view.op = "optimizer" /\ "returns" \in DOMAIN view
        /\ Insufficient(view.returns)) =>
           view.outcome = "data_error" /\ IsNone(view.result)

\* C11: whenever the solver reports non-convergence, optimize_portfolio yields
\* None, which carries no weights, risk or expected return, and the optimizer
\* tab then shows the optimization-failed message, which advises another target
\* return, and neither an optimization result nor a rebalancing suggestion.
C11_NonConvergenceReported ==
    /\ (view.op = "optimize_portfolio" /\ view.called /\ ~view.success) =>
           IsNone(view.result)
    /\ (/\ view.op = "optimizer" /\ "called" \in DOMAIN view
        /\ view.called /\ ~view.success) =>
           /\ view.outcome = "optimization_failed"
           /\ IsNone(view.result) /\ IsNone(view.suggestions)

\* two instruments with full histories, the button pressed with the default
\* target, which no weight vector meets: the solver fails
C11_Witness ==
    /\ view.op = "optimizer" /\ "called" \in DOMAIN view
    /\ view.called /\ ~view.success
    /\ view.target = DefaultTarget
    /\ Len(view.returns[1].columns) = 2
    /\ Cardinality(Overlap(view.returns[1])) >= 2

FetchOps == {"get_current_exchange_rate", "get_exchange_rate"}

\* C12 as stated: over any sequence of exchange-rate fetches a failed fetch
\* yields the rate of the most recent successful fetch if there is one, the
\* default 1300.0 only when no fetch has succeeded before, and never an absent
\* rate.  Stated of two consecutive fetches: a failed fetch yields a rate, and
\* the rate of the successful fetch right before it when there is one.
C12_FailedFetchFallsBackToLastRate ==
    [][(view'.op \in FetchOps /\ IsNone(view'.fetched)) =>
           /\ ~IsNone(view'.result)
           /\ (view.op \in FetchOps /\ ~IsNone(view.fetched)) =>
                  view'.result = view.fetched]_vars

RAbs(x) == Rat(Abs(x.n), x.d)

\* target_weight - current_weight of a row of the preset-based list, in
\* percentage points
PresetDelta(item) ==
    RAdd(Int2Rat(item.target_weight), Rat(-item.current_weight.n, item.current_weight.d))

\* the rows of the optimizer-based list whose two weights are numbers
OptimizerItems == {asset \in DOMAIN view.suggestions[1] : IsNum(view.suggestions[1][asset].diff)}

\* C13 as stated: a rebalancing item is flagged if and only if
\* |target_weight - current_weight| is at least 5 percentage points in the
\* preset-based list and at least 1 percentage point in the optimizer-based
\* list; for identical current and target weights the delta is 0 and the item is
\* not flagged.
C13_FlaggedIffDeltaReachesThreshold ==
    /\ (view.op = "analysis" /\ view.shown) =>
           \A asset_type \in DOMAIN view.rebalance.items :
               LET item == view.rebalance.items[asset_type]
               IN /\ item.flagged <=> RLe(Int2Rat(5), RAbs(PresetDelta(item)))
                  /\ REq(item.current_weight, Int2Rat(item.target_weight)) =>
                         IsZero(item.diff) /\ ~item.flagged
    /\ (view.op = "optimizer" /\ view.outcome = "result") =>
           \A asset \in OptimizerItems :
               LET item == view.suggestions[1][asset]
               IN item.flagged <=> RLe(Int2Rat(1), RAbs(item.diff))

\* C14 as stated: for every flagged rebalancing item the suggested trade amount
\* is |delta| * total portfolio value / 100 with
\* delta = target_weight - current_weight, and the direction is sell when delta
\* is negative and buy otherwise, in both lists.
C14_AmountAndDirection ==
    /\ (view.op = "analysis" /\ view.shown) =>
           \A asset_type \in DOMAIN view.rebalance.items :
               LET item == view.rebalance.items[asset_type]
                   delta == PresetDelta(item)
               IN item.flagged =>
                      /\ REq(item.amount,
                             RMul(RAbs(delta), Rat(view.rebalance.total_portfolio_value, 100)))
                      /\ item.action = IF delta.n < 0 THEN "sell" ELSE "buy"
    /\ (view.op = "optimizer" /\ view.outcome = "result") =>
           \A asset \in OptimizerItems :
               LET item == view.suggestions[1][asset]
               IN item.flagged =>
                      /\ item.action = IF item.diff.n < 0 THEN "sell" ELSE "buy"
                      /\ REq(item.amount,
                             RMul(RAbs(item.diff),
                                  Rat(RefTotalCurrentOwnRate(investment), 100)))

\* C15: for an empty holdings set calculate_portfolio_metrics returns total
\* purchase 0, total current 0 and an empty weights mapping, and
\* calculate_investment_metrics returns all-zero totals; neither raises.
C15_EmptyHoldingsZeroTotals ==
    /\ (view.op = "calculate_portfolio_metrics" /\ DOMAIN view.data = {}) =>
           /\ ~IsErr(view.metrics)
           /\ view.metrics.total = 0 /\ view.metrics.total_krw = 0
           /\ DOMAIN view.metrics.weights = {}
    /\ (view.op = "calculate_investment_metrics" /\ DOMAIN view.data = {}) =>
           /\ ~IsErr(view.metrics)
           /\ view.metrics.total_investment = 0 /\ view.metrics.total_value = 0
           /\ view.metrics.total_profit = 0 /\ IsZero(view.metrics.total_profit_rate)

\* calculate_portfolio_metrics applied to no holdings, without a rate
C15_Witness ==
    /\ view.op = "calculate_portfolio_metrics" /\ DOMAIN view.data = {}
    /\ IsNone(view.rate)

SameKey(row, other) == row.symbol = other.symbol /\ row.type = other.type

SubmittedFields(row, data) ==
    /\ \A f \in DOMAIN data \ {"purchase_exchange_rate", "current_exchange_rate"} :
          row[f] = data[f]
    /\ \A f \in {"purchase_exchange_rate", "current_exchange_rate"} :
          row[f] = IF f \in DOMAIN data THEN Some(data[f]) ELSE None

\* C17: update_investment(id, data) and delete_investment(id) affect only the holding
\* with that id: after an update every data field of it equals the submitted value,
\* after a delete load_investment has no record with that id, every other holding is
\* unchanged, and with no such id the store is unchanged.
C17_UpdateAndDeleteTouchOnlyTheirId ==
    [][/\ (\/ view'.op = "update_investment"
           \/ (view'.op = "edit_form" /\ ~IsErr(view'.result))) =>
             /\ DOMAIN investment' = DOMAIN investment
             /\ \A i \in DOMAIN investment \ {view'.id} : investment'[i] = investment[i]
             /\ view'.id \in DOMAIN investment =>
                   SubmittedFields(load_investment(investment')[view'.id], view'.data)
             /\ view'.id \notin DOMAIN investment => investment' = investment
       /\ view'.op = "delete_investment" =>
             /\ view'.id \notin DOMAIN load_investment(investment')
             /\ DOMAIN investment' = DOMAIN investment \ {view'.id}
             /\ \A i \in DOMAIN investment' : investment'[i] = investment[i]
             /\ view'.id \notin DOMAIN investment => investment' = investment]_vars

\* an update has rewritten one of two holdings, the other one of another symbol
C17_Witness ==
    /\ view.op = "update_investment"
    /\ view.id \in DOMAIN investment
    /\ \E j \in DOMAIN investment \ {view.id} : investment[j].symbol # view.data.symbol

\* C18 as stated: in every state of the store reached through the entry form, the
\* edit form, save_investment and update_investment, the stored amounts are
\* non-negative and every present exchange rate lies in [500, 2000].
C18_StoredAmountsAndRatesInRange ==
    \A i \in DOMAIN investment :
        /\ investment[i].amount >= 0
        /\ investment[i].current_amount >= 0
        /\ \A r \in {investment[i].purchase_exchange_rate,
                     investment[i].current_exchange_rate} :
              ~IsNone(r) => (MIN_EXCHANGE_RATE <= r[1] /\ r[1] <= MAX_EXCHANGE_RATE)

\* lo <= x <= hi for a finite x given in millions and thousandths
WithinLimits(x, lo, hi) ==
    /\ IsFinite(x)
    /\ (lo.m < x.m \/ (lo.m = x.m /\ lo.t <= x.t))
    /\ (x.m < hi.m \/ (x.m = hi.m /\ x.t <= hi.t))

\* the number a validator's argument denotes, if it denotes one
Denotes(value) == IF "str" \in DOMAIN value THEN float(value) ELSE value

\* C19 as stated: validate_amount accepts a value iff it is numeric and lies in
\* [0.01, 999999999999.99], validate_exchange_rate iff it is numeric and lies in
\* [500, 2000]; otherwise they raise ValidationError and return no value.
C19_ValidatorsAcceptExactlyTheirRange ==
    /\ view.op = "validate_amount" =>
          /\ ~IsErr(view.result) <=>
                 WithinLimits(Denotes(view.value), Finite(0, 10),
                              Finite(999999, 999999990))
          /\ IsErr(view.result) => view.result = Raise("ValidationError")
    /\ view.op = "validate_exchange_rate" =>
          /\ ~IsErr(view.result) <=>
                 WithinLimits(Denotes(view.value), Finite(0, 500000),
                              Finite(0, 2000000))
          /\ IsErr(view.result) => view.result = Raise("ValidationError")

\* the KRW current value of an entry over the total, times 100, as an exact fraction
RefWeight(hs, k, r) == Rat(RefCurrentAt(hs[k], r) * 100, RefTotalCurrentAt(hs, r))

\* C20 as stated: every weight produced by calculate_portfolio_metrics and by
\* main_dashboard equals the asset type's KRW current value divided by the total KRW
\* current value, times 100, rounded to one decimal place.
C20_WeightsRoundedToOneDecimal ==
    /\ (view.op = "portfolio_form" /\ view.metrics.total_krw # 0) =>
          \A k \in DOMAIN view.data :
              view.metrics.weights[k] = Round1(RefWeight(view.data, k, view.rate))
    /\ (view.op = "dashboard" /\ ~IsErr(view.result) /\ view.result.shown) =>
          \A k \in DOMAIN portfolio :
              view.result.weights[k] = Round1(RefWeight(portfolio, k, DefaultRate))

\* w is a number of tenths at most 0.05 away from x
NearestTenth(w, x) ==
    /\ 10 % w.d = 0
    /\ 20 * Abs(w.n * x.d - x.n * w.d) <= w.d * x.d

\* C20 amended: every weight produced by calculate_portfolio_metrics equals the asset
\* type's KRW current value divided by the total KRW current value, times 100, with
\* no rounding; every weight produced by main_dashboard equals the asset type's KRW
\* value divided by the total KRW value, times 100, rounded to one decimal place.
C20_DashboardRoundsMetricsDoNot ==
    /\ (view.op = "portfolio_form" /\ view.metrics.total_krw # 0) =>
          \A k \in DOMAIN view.data :
              view.metrics.weights[k] = RefWeight(view.data, k, view.rate)
    /\ (view.op = "dashboard" /\ ~IsErr(view.result) /\ view.result.shown) =>
          \A k \in DOMAIN portfolio :
              NearestTenth(view.result.weights[k], RefWeight(portfolio, k, DefaultRate))

\* the dashboard shows a weight that the rounding has changed
C20_Witness ==
    /\ view.op = "dashboard" /\ ~IsErr(view.result) /\ view.result.shown
    /\ \E k \in DOMAIN portfolio :
          view.result.weights[k] # RefWeight(portfolio, k, DefaultRate)

\* the symbols whose fetch failed or whose history gives no return at all
NoData(symbols) ==
    {symbols[i] : i \in {j \in DOMAIN symbols :
                            \/ IsNone(market[symbols[j]])
                            \/ DOMAIN market[symbols[j]][1] = {}}}

\* C21 as stated: an instrument whose price-history fetch fails or returns an empty
\* history is excluded from the return matrix built by get_daily_returns, and the
\* optimization still proceeds on the remaining instruments whenever at least one
\* of them has data.
C21_NoDataInstrumentExcluded ==
    view.op = "optimize_portfolio" =>
        LET all == {view.symbols[i] : i \in DOMAIN view.symbols}
        IN /\ ~IsNone(view.returns) =>
                 \A i \in DOMAIN view.returns[1].columns :
                     view.returns[1].columns[i] \notin NoData(view.symbols)
           /\ all \ NoData(view.symbols) # {} =>
                 /\ ~IsNone(view.returns)
                 /\ {view.returns[1].columns[i] : i \in DOMAIN view.returns[1].columns}
                        = all \ NoData(view.symbols)
                 /\ view.called

\* the dates on which every column of the return matrix has a value
CommonDates(returns) ==
    {d \in returns.index : \A symbol \in DOMAIN returns.data : d \in DOMAIN returns.data[symbol]}

\* the annual mean of a column over the dates D, nan over none
MeanOver(returns, symbol, D) ==
    IF D = {} THEN NaN
    ELSE Rat(SumOver([d \in D |-> returns.data[symbol][d]], D) * TradingDays, Cardinality(D))

\* the annual sample covariance of two columns over the dates D, nan below two dates
CovOver(returns, a, b, D) ==
    LET m == Cardinality(D)
        ra == returns.data[a]
        rb == returns.data[b]
    IN IF m < 2 THEN NaN
       ELSE Rat((m * SumOver([d \in D |-> ra[d] * rb[d]], D)
                   - SumOver([d \in D |-> ra[d]], D) * SumOver([d \in D |-> rb[d]], D))
                * TradingDays, m * (m - 1))

\* C22 as stated: the dates that contribute to every instrument's annual mean return
\* and to every covariance entry used by optimize_portfolio are exactly the dates on
\* which all instruments have a return value; a date missing for any one instrument
\* contributes to no statistic.
C22_StatisticsOverCommonDates ==
    (view.op = "optimize_portfolio" /\ view.called) =>
        LET returns == view.returns[1]
            columns == {returns.columns[i] : i \in DOMAIN returns.columns}
            D == CommonDates(returns)
        IN \A a \in columns :
               /\ MeanReturn(returns, a) = MeanOver(returns, a, D)
               /\ \A b \in columns : Cov(returns, a, b) = CovOver(returns, a, b, D)

\* the dict carries the rate and it is a positive number
PresentAndPositive(data, key) ==
    /\ key \in DOMAIN data
    /\ IsFinite(data[key])
    /\ (data[key].m > 0 \/ (data[key].m = 0 /\ data[key].t > 0))

\* validate_investment_data has accepted a holding of this currency
AcceptedIn(currency) ==
    /\ view.op = "validate_investment_data"
    /\ ~IsErr(view.result)
    /\ view.result.currency.str = currency

\* C23 as stated: validate_investment_data accepts a USD holding only if both the
\* purchase-time and the current exchange rate are present and positive, and its
\* validated output for a KRW holding carries no exchange-rate field.
C23_UsdNeedsBothRates ==
    /\ AcceptedIn("USD") =>
          /\ PresentAndPositive(view.data, "purchase_exchange_rate")
          /\ PresentAndPositive(view.data, "current_exchange_rate")
    /\ AcceptedIn("KRW") =>
          DOMAIN view.result \cap {"purchase_exchange_rate", "current_exchange_rate"} = {}

\* the day a validate_date argument denotes, if it denotes one
DayOf(value) ==
    IF "date" \in DOMAIN value THEN Some(value.date)
    ELSE IF "datetime" \in DOMAIN value THEN Some(value.datetime)
    ELSE IF "str" \in DOMAIN value /\ value.str \in DOMAIN DateLiterals
    THEN Some(DateLiterals[value.str])
    ELSE None

\* C24 as stated: validate_date rejects with ValidationError every date after today
\* and every date before the year 1900, for every accepted input form (YYYY-MM-DD
\* string, date object, datetime object), and returns the date as a YYYY-MM-DD
\* string otherwise.
C24_FutureAndAncientDatesRejected ==
    (view.op = "validate_date" /\ ~IsNone(DayOf(view.value))) =>
        LET day == DayOf(view.value)[1]
        IN IF DateLt(Today, day) \/ day[1] < 1900
           THEN view.result = Raise("ValidationError")
           ELSE view.result = [str |-> DateText[day]]

\* C25 as stated: after any sequence of save_investment, update_investment and
\* delete_investment calls from an empty store no two stored holdings share the
\* same (symbol, type) pair.
C25_NoTwoHoldingsShareAKey ==
    \A i, j \in DOMAIN investment :
        SameKey(investment[i], investment[j]) => i = j

\* C26: a write operation that hits an error returns False without raising and leaves
\* every table as it was before the call, whichever statement the error came at
C26_FailedWritePersistsNothing ==
    [][(view'.op \in {"save_budget", "save_portfolio"})
          => /\ view'.ok \in BOOLEAN
             /\ (~IsNone(view'.raised)
                    => /\ view'.ok = FALSE
                       /\ budget' = budget
                       /\ portfolio' = portfolio
                       /\ investment' = investment)]_vars

\* a save_budget that failed at an INSERT after the month had rows, and a
\* save_portfolio that failed at its second asset type
C26_Witness ==
    \/ /\ view.op = "save_budget"
       /\ ~view.ok
       /\ Len(view.data.categories) > 0
       /\ \E k \in DOMAIN budget : k[1] = view.data.month
    \/ /\ view.op = "save_portfolio"
       /\ ~view.ok
       /\ Len(view.data) > 1
       /\ "amount" \in DOMAIN view.data[1][2]
       /\ ~IsNone(view.data[1][2].amount)

\* the category-to-amount mapping a successful save_budget was given
SavedCategories(data) ==
    [c \in {data.categories[i][1] : i \in 1..Len(data.categories)} |->
        LET i == CHOOSE j \in 1..Len(data.categories) : data.categories[j][1] = c
        IN data.categories[i][2][1]]

\* load_budget of every month but the given one
OtherMonths(table, month) ==
    [m \in BudgetMonths \ {month} |-> load_budget(table, Some(m))]

\* C27 as stated: after a successful save_budget(month, categories), load_budget(month)
\* has the month's entry with exactly the saved mapping and their sum as total, and
\* the budgets of the other months are unchanged
C27_LoadReturnsSavedBudget ==
    [][(view'.op = "save_budget" /\ view'.ok)
          => /\ load_budget(budget', Some(view'.data.month))
                  = [m \in {view'.data.month} |->
                        [categories |-> SavedCategories(view'.data),
                         total |-> SumOver(SavedCategories(view'.data),
                                           DOMAIN SavedCategories(view'.data))]]
             /\ OtherMonths(budget', view'.data.month)
                  = OtherMonths(budget, view'.data.month)]_vars

\* C27 amended: the same when at least one category was saved; after a successful
\* save of no category load_budget(month) is the empty dict, without an entry for
\* the month
C27_LoadReturnsSavedBudgetUnlessEmpty ==
    [][(view'.op = "save_budget" /\ view'.ok)
          => /\ load_budget(budget', Some(view'.data.month))
                  = IF view'.data.categories = <<>> THEN <<>>
                    ELSE [m \in {view'.data.month} |->
                            [categories |-> SavedCategories(view'.data),
                             total |-> SumOver(SavedCategories(view'.data),
                                               DOMAIN SavedCategories(view'.data))]]
             /\ OtherMonths(budget', view'.data.month)
                  = OtherMonths(budget, view'.data.month)]_vars

\* a successful save of one category with a positive amount while another month has
\* rows; the month's other category is not stored
C27_Witness ==
    /\ view.op = "save_budget"
    /\ view.ok
    /\ Len(view.data.categories) = 1
    /\ budget[<<view.data.month, view.data.categories[1][1]>>] > 0
    /\ \E k \in DOMAIN budget : k[1] # view.data.month

\* C28: every render of the investments page shows at most one edit form, and only
\* for the holding whose edit button was clicked last; a submitted edit rewrites
\* that holding only; after a successful update or a cancel no form is shown, and
\* after a failed update the form stays
C28_OneEditFormForTheLastClicked ==
    [][("forms" \in DOMAIN view')
          => /\ Len(view'.forms) <= 1
             /\ \A i \in 1..Len(view'.forms) :
                    Some(view'.forms[i]) = session_state'.edit_investment_id
             /\ (view'.op = "submit_click")
                    => /\ \A i \in DOMAIN investment :
                              Some(i) # session_state.edit_investment_id
                                  => /\ i \in DOMAIN investment'
                                     /\ investment'[i] = investment[i]
                       /\ (view'.result = "updated") => view'.forms = <<>>
                       /\ (view'.result = "failed") => view'.forms = <<view'.form>>
             /\ (view'.op = "cancel_click" /\ view'.closed) => view'.forms = <<>>]_vars

\* C29: a submit of the edit form of a stored holding with every input left as the
\* form opened leaves every stored data field of the holding as it was
C29_UnchangedEditKeepsFields ==
    [][(/\ view'.op = "submit_click"
        /\ view'.result = "updated"
        /\ session_state.edit_investment = Some(investment[view'.form])
        /\ view'.data = EditDefaults(investment[view'.form]))
          => investment'[view'.form] = investment[view'.form]]_vars

\* C30: in the preset-based rebalancing table, whenever the total portfolio value is
\* positive, the current weights of the six preset asset types sum to 100 and the
\* deltas against the preset sum to 0
C30_PresetWeightsSumToHundred ==
    (view.op = "analysis" /\ view.shown /\ view.rebalance.total_portfolio_value > 0) =>
        LET items == view.rebalance.items
        IN /\ REq(RSumOver([t \in DOMAIN items |-> items[t].current_weight], DOMAIN items),
                  Int2Rat(100))
           /\ IsZero(RSumOver([t \in DOMAIN items |-> items[t].diff], DOMAIN items))

====
